---------------------------- MODULE Spec2Model ----------------------------
(***************************************************************************)
(* A model of the alpha-vantage-mcp statistical futures strategy:          *)
(*   technical_indicators.py  indicator library, market context, the       *)
(*                            10-item checklist, position sizing           *)
(*   institutional_data.py    institutional activity analysis              *)
(*   futures_strategy.py      timing overlay, analyze_futures_trade_setup  *)
(*                                                                         *)
(* Numbers.  Prices and volumes are integers.  Every float the code        *)
(* computes is kept exactly, as a pair <<n, d>> with d >= 0 standing for   *)
(* n/d; <<0, 0>> is NaN and <<1, 0>>, <<-1, 0>> are +inf, -inf, so that a  *)
(* comparison with NaN is false as it is in IEEE arithmetic.  Rounding of  *)
(* binary floating point is modelled only where int() truncates (IntOf).   *)
(*                                                                         *)
(* Frames.  A pandas DataFrame is [rows, label0]: rows in storage          *)
(* (positional) order and label0, the position that the subscript [0] of a *)
(* column resolves to.  For the DatetimeIndex that get_price_data builds,  *)
(* and for a default RangeIndex, an integer key falls back to the position *)
(* and label0 = 1, the first row (pandas before 3.0, where an integer key  *)
(* on such an index is still positional); for any other integer index the  *)
(* key 0 is the row labelled 0.  rolling(), diff(), shift(), pct_change(), *)
(* cumsum() always run in positional order, and .iloc[0], index[0] and the *)
(* slice [20:] are positional.                                             *)
(***************************************************************************)
EXTENDS Integers, Sequences, FiniteSets, TLC

VARIABLES
    pc,                 \* position of the operation under way
    call,               \* the arguments of the operation under way
    asset_df,           \* the price frame given to generate_setup_report
    market_condition,   \* the market context given to generate_setup_report
    setup_report,       \* the result of generate_setup_report (None before)
    result,             \* what the operation returned or raised (None before)
    locals,             \* the other locals of analyze_futures_trade_setup and
                        \* of analyze_institutional_activity bound so far
    requests            \* the requests made to the data source, with outcomes

\* the variables that only an evaluation uses
evalVars == <<locals, requests>>

vars == <<pc, call, asset_df, market_condition, setup_report, result, evalVars>>

None == "None"

\* no evaluation is under way
NoEvaluation ==
    /\ locals = <<>>
    /\ requests = <<>>

-----------------------------------------------------------------------------
(* Exact arithmetic on <<n, d>>                                            *)

NaN == <<0, 0>>

Sgn(x) == IF x > 0 THEN 1 ELSE IF x < 0 THEN -1 ELSE 0

AbsInt(x) == IF x < 0 THEN -x ELSE x

B2I(b) == IF b THEN 1 ELSE 0

\* n/d as a float: a zero divisor gives +-inf, 0/0 gives NaN
Div(n, d) == IF d > 0 THEN <<n, d>> ELSE IF d < 0 THEN <<-n, -d>> ELSE <<Sgn(n), 0>>

Num(k) == <<k, 1>>

IsNaN(a) == a[1] = 0 /\ a[2] = 0

IsFinite(a) == a[2] > 0

Lt(a, b) ==
    /\ ~IsNaN(a)
    /\ ~IsNaN(b)
    /\ IF a[2] = 0 /\ b[2] = 0 THEN a[1] < b[1] ELSE a[1] * b[2] < b[1] * a[2]

Gt(a, b) == Lt(b, a)

Ge(a, b) == ~IsNaN(a) /\ ~IsNaN(b) /\ ~Lt(a, b)

Le(a, b) == Ge(b, a)

EqNum(a, b) == Ge(a, b) /\ Ge(b, a)

Sub(a, b) ==
    IF IsNaN(a) \/ IsNaN(b) THEN NaN
    ELSE IF a[2] = 0 /\ b[2] = 0 THEN (IF a[1] = b[1] THEN NaN ELSE a)
    ELSE IF a[2] = 0 THEN a
    ELSE IF b[2] = 0 THEN <<-b[1], 0>>
    ELSE <<a[1] * b[2] - b[1] * a[2], a[2] * b[2]>>

Quot(a, b) ==
    IF IsNaN(a) \/ IsNaN(b) THEN NaN
    ELSE IF a[2] = 0 /\ b[2] = 0 THEN NaN
    ELSE IF b[2] = 0 THEN <<0, 1>>
    ELSE IF a[2] = 0 THEN <<a[1] * (IF b[1] < 0 THEN -1 ELSE 1), 0>>
    ELSE Div(a[1] * b[2], a[2] * b[1])

AbsNum(a) == <<AbsInt(a[1]), a[2]>>

Mul(a, b) ==
    IF IsNaN(a) \/ IsNaN(b) THEN NaN
    ELSE IF a[2] = 0 \/ b[2] = 0 THEN <<Sgn(a[1]) * Sgn(b[1]), 0>>
    ELSE <<a[1] * b[1], a[2] * b[2]>>

Max2(x, y) == IF x >= y THEN x ELSE y

RECURSIVE RangeSum(_, _, _)
RangeSum(s, a, b) == IF a > b THEN 0 ELSE s[b] + RangeSum(s, a, b - 1)

-----------------------------------------------------------------------------
(* Frames                                                                  *)

Bar(h, l, c, v) == [high |-> h, low |-> l, close |-> c, volume |-> v]

Frame(rs, l0) == [rows |-> rs, label0 |-> l0]

NRows(df) == Len(df.rows)

Column(df, column) == [i \in 1..NRows(df) |-> df.rows[i][column]]

\* df[column].rolling(window).sum() at position p; callers test p >= window
RollingSum(s, window, p) == RangeSum(s, p - window + 1, p)

\* window * sum(x^2) - sum(x)^2 over the window: window*(window-1) times the
\* sample variance that rolling(window).std() squares to
RollingQ(s, window, p) ==
    LET sq == [i \in DOMAIN s |-> s[i] * s[i]]
        sm == RollingSum(s, window, p)
    IN  window * RollingSum(sq, window, p) - sm * sm

-----------------------------------------------------------------------------
(* Indicator library.  Each operator gives the value of the pandas Series  *)
(* the function returns at position p.                                     *)

\* a rolling mean that pads the missing history with zeros
calculate_moving_average_padded(df, window, column, p) ==
    <<RangeSum(Column(df, column), Max2(1, p - window + 1), p), window>>

calculate_moving_average(df, window, column, p) ==
    IF p < window THEN NaN
    ELSE <<RollingSum(Column(df, column), window, p), window>>

\* The square of df[column].rolling(window).std(), NaN while p < window
RollingVar(df, window, column, p) ==
    IF p < window THEN NaN
    ELSE Div(RollingQ(Column(df, column), window, p), window * (window - 1))

\* middle_band and the square of (std * num_std); upper_band and lower_band
\* are middle_band plus and minus the root of width_sq
calculate_bollinger_bands(df, window, num_std, column, p) ==
    [middle   |-> calculate_moving_average(df, window, column, p),
     width_sq |-> Mul(RollingVar(df, window, column, p), Num(num_std * num_std))]

\* x >= middle + width (side = 1), x <= middle - width (side = -1); false on NaN
BandTouch(x, bands, side) ==
    LET dlt == Sub(Num(x), bands.middle)
    IN  /\ ~IsNaN(dlt)
        /\ ~IsNaN(bands.width_sq)
        /\ side * dlt[1] >= 0
        /\ Ge(Mul(dlt, dlt), bands.width_sq)

calculate_rsi(df, window, column, p) ==
    LET x     == Column(df, column)
        delta == [i \in 2..NRows(df) |-> x[i] - x[i - 1]]
        gain  == [i \in 1..NRows(df) |-> IF i > 1 /\ delta[i] > 0 THEN delta[i] ELSE 0]
        loss  == [i \in 1..NRows(df) |-> IF i > 1 /\ delta[i] < 0 THEN -delta[i] ELSE 0]
        rs    == Div(RollingSum(gain, window, p), RollingSum(loss, window, p))
    IN  IF p < window \/ IsNaN(rs) THEN NaN
        ELSE IF rs[2] = 0 THEN Num(100)
        ELSE <<100 * rs[1], rs[1] + rs[2]>>

TrueRange(df) ==
    [i \in 1..NRows(df) |->
        LET r == df.rows[i]
        IN  IF i = 1 THEN r.high - r.low
            ELSE Max2(r.high - r.low,
                      Max2(AbsInt(r.high - df.rows[i - 1].close),
                           AbsInt(r.low - df.rows[i - 1].close)))]

calculate_atr(df, window, p) ==
    IF p < window THEN NaN ELSE <<RollingSum(TrueRange(df), window, p), window>>

calculate_vwap(df, p) ==
    LET tpv == [i \in 1..NRows(df) |->
                  (df.rows[i].high + df.rows[i].low + df.rows[i].close) * df.rows[i].volume]
    IN  Div(RangeSum(tpv, 1, p), 3 * RangeSum(Column(df, "volume"), 1, p))

calculate_rate_of_change(df, window, column, p) ==
    LET x == Column(df, column)
    IN  IF p <= window THEN NaN ELSE Div(100 * (x[p] - x[p - window]), x[p - window])

\* sign(score) * score^2 for score = ((x - ma) / std) / std_threshold: the
\* score itself has a square root in it.  Sign, NaN and every comparison
\* with 0 and with +-1 are those of the score.
calculate_mean_reversion_score(df, window, std_threshold, column, p) ==
    LET ma  == calculate_moving_average(df, window, column, p)
        dlt == Sub(Num(Column(df, column)[p]), ma)
        sq  == <<Sgn(dlt[1]) * dlt[1] * dlt[1], dlt[2] * dlt[2]>>
    IN  Quot(sq, Mul(RollingVar(df, window, column, p),
                     Num(std_threshold * std_threshold)))

\* threshold is the pair <<3, 2>> for 1.5
check_volume_climax(df, threshold, window, p) ==
    Gt(Num(df.rows[p].volume),
       Mul(calculate_moving_average(df, window, "volume", p), threshold))

is_price_at_bollinger_band(df, window, num_std, column, p) ==
    LET bands == calculate_bollinger_bands(df, window, num_std, column, p)
        x     == Column(df, column)[p]
    IN  [upper_band_touch |-> BandTouch(x, bands, 1),
         lower_band_touch |-> BandTouch(x, bands, -1)]

\* series.rank(pct=True)[p] * 100 for a series of numbers (NaN is not ranked;
\* ties take the average rank)
RankPct(series, p) ==
    LET ranked == {i \in DOMAIN series : ~IsNaN(series[i])}
        less   == Cardinality({i \in ranked : Lt(series[i], series[p])})
        same   == Cardinality({i \in ranked : EqNum(series[i], series[p])})
    IN  IF IsNaN(series[p]) THEN NaN
        ELSE Div(100 * (2 * less + same + 1), 2 * Cardinality(ranked))

-----------------------------------------------------------------------------
(* Market context and the 10-item checklist                                *)

\* dict.get(key, default)
DictGet(d, k, default) == IF k \in DOMAIN d THEN d[k] ELSE default

analyze_market_condition(sp500_df, vix_df, sector_data, stock_sector, ma_window) ==
    LET sp500_ma           == calculate_moving_average(sp500_df, ma_window, "close", sp500_df.label0)
        vix_2day_change    == calculate_rate_of_change(vix_df, 2, "close", vix_df.label0)
        sector_performance == DictGet(sector_data, stock_sector, 0)
    IN  [sp500_above_ma       |-> Gt(Num(sp500_df.rows[sp500_df.label0].close), sp500_ma),
         vix_declining        |-> Lt(vix_2day_change, Num(0)),
         vix_2day_change      |-> vix_2day_change,
         sector_performance   |-> sector_performance,
         sector_outperforming |-> sector_performance > 0]

\* atr[20:].mean(): the mean of the ATR values from position 21 on, NaN
\* values skipped, NaN when there is none
AtrTailMean(df, window, skip) ==
    LET at   == {i \in (skip + 1)..NRows(df) : i >= window}
        sums == [i \in 1..NRows(df) |->
                    IF i \in at THEN calculate_atr(df, window, i)[1] ELSE 0]
    IN  Div(RangeSum(sums, 1, NRows(df)), window * Cardinality(at))

CountTrue(checklist) == Cardinality({k \in DOMAIN checklist : checklist[k]})

\* the 'recommendation' entry of the report (line 450)
RecommendationOf(mean_rev_score) ==
    IF Gt(mean_rev_score, Num(0)) THEN "LONG"
    ELSE IF Lt(mean_rev_score, Num(0)) THEN "SHORT"
    ELSE "NEUTRAL"

\* a checklist whose band criterion accepts either band whatever the sign
Checklist_either_band(mc, v) ==
    [vix_declining              |-> mc.vix_declining,
     sector_outperforming       |-> mc.sector_outperforming,
     sp500_above_ma             |-> mc.sp500_above_ma,
     mean_reversion_opportunity |-> Ge(AbsNum(v.mean_rev_score), Num(1)),
     volume_climax              |-> v.vol_climax,
     rsi2_oversold              |-> IF Gt(v.mean_rev_score, Num(0))
                                    THEN Lt(v.rsi2, Num(10)) ELSE Gt(v.rsi2, Num(90)),
     at_bollinger_band          |-> v.band_touches.lower_band_touch
                                    \/ v.band_touches.upper_band_touch,
     extreme_roc                |-> IF Gt(v.mean_rev_score, Num(0))
                                    THEN Lt(v.roc_percentile, Num(10))
                                    ELSE Gt(v.roc_percentile, Num(90)),
     price_near_vwap            |-> Lt(AbsNum(Quot(v.price_vs_vwap, Num(v.close0))), <<1, 100>>),
     high_atr                   |-> Gt(v.atr_ratio, <<12, 10>>)]

\* the checklist dict (lines 418-434) from v, the indicator values at [0]
Checklist(mc, v) ==
    [vix_declining              |-> mc.vix_declining,
     sector_outperforming       |-> mc.sector_outperforming,
     sp500_above_ma             |-> mc.sp500_above_ma,
     mean_reversion_opportunity |-> Ge(AbsNum(v.mean_rev_score), Num(1)),
     volume_climax              |-> v.vol_climax,
     rsi2_oversold              |-> IF Gt(v.mean_rev_score, Num(0))
                                    THEN Lt(v.rsi2, Num(10)) ELSE Gt(v.rsi2, Num(90)),
     at_bollinger_band          |-> IF Gt(v.mean_rev_score, Num(0))
                                    THEN v.band_touches.lower_band_touch
                                    ELSE v.band_touches.upper_band_touch,
     extreme_roc                |-> IF Gt(v.mean_rev_score, Num(0))
                                    THEN Lt(v.roc_percentile, Num(10))
                                    ELSE Gt(v.roc_percentile, Num(90)),
     price_near_vwap            |-> Lt(AbsNum(Quot(v.price_vs_vwap, Num(v.close0))), <<1, 100>>),
     high_atr                   |-> Gt(v.atr_ratio, <<12, 10>>)]

\* a threshold that is off by one
ReadyToTrade_strict(confirmed_count) == confirmed_count > 7

\* confirmed_count >= 7 (line 440)
ReadyToTrade(confirmed_count) == confirmed_count >= 7

\* the report dict of lines 442-465 without its timestamp (df.index[0]) and
\* with the two outer bands given by middle_band and band_width_sq
generate_setup_report(symbol, df, mc) ==
    LET p0             == df.label0
        rsi2           == calculate_rsi(df, 2, "close", p0)
        atr            == calculate_atr(df, 14, p0)
        atr_20d_avg    == AtrTailMean(df, 14, 20)
        atr_ratio      == Quot(atr, atr_20d_avg)
        bands          == calculate_bollinger_bands(df, 20, 2, "close", p0)
        band_touches   == is_price_at_bollinger_band(df, 20, 2, "close", p0)
        roc_3day       == [i \in 1..NRows(df) |-> calculate_rate_of_change(df, 3, "close", i)]
        roc_percentile == RankPct(roc_3day, p0)
        vwap           == calculate_vwap(df, p0)
        close0         == df.rows[p0].close
        price_vs_vwap  == Sub(Num(close0), vwap)
        vol_climax     == check_volume_climax(df, <<3, 2>>, 10, p0)
        mean_rev_score == calculate_mean_reversion_score(df, 20, 2, "close", p0)
        checklist      == Checklist(mc, [mean_rev_score |-> mean_rev_score,
                                         vol_climax     |-> vol_climax,
                                         rsi2           |-> rsi2,
                                         band_touches   |-> band_touches,
                                         roc_percentile |-> roc_percentile,
                                         price_vs_vwap  |-> price_vs_vwap,
                                         close0         |-> close0,
                                         atr_ratio      |-> atr_ratio])
        confirmed_count == CountTrue(checklist)
    IN  [symbol          |-> symbol,
         price           |-> close0,
         checklist_items |-> checklist,
         confirmed_count |-> confirmed_count,
         needed_count    |-> 7,
         ready_to_trade  |-> ReadyToTrade(confirmed_count),
         recommendation  |-> RecommendationOf(mean_rev_score),
         technical_data  |-> [rsi2                 |-> rsi2,
                              atr                  |-> atr,
                              atr_ratio            |-> atr_ratio,
                              mean_reversion_score |-> mean_rev_score,
                              vwap                 |-> vwap,
                              price_vs_vwap        |-> price_vs_vwap,
                              roc_3day             |-> roc_3day[p0],
                              roc_percentile       |-> roc_percentile,
                              middle_band          |-> bands.middle,
                              band_width_sq        |-> bands.width_sq],
         market_condition |-> mc]

-----------------------------------------------------------------------------
(* Calls: a call either returns a value or raises an exception             *)

Returned(v) == [raised |-> None, value |-> v]

\* e is the exception class; detail is its message or, for an exception
\* of calculate_position_size, the locals bound when it was raised
Raised(e, detail) == [raised |-> e, value |-> None, detail |-> detail]

-----------------------------------------------------------------------------
(* Position sizing                                                         *)

\* The values int(x) can take for a finite float x.  The model keeps x
\* exactly; the float the code holds is x rounded, and the factors 0.7 and
\* 0.3 are binary fractions just below 7/10 and 3/10, so when x is exactly
\* an integer k the float is k or a value just inside it and int() gives k
\* or the integer next to it towards zero.
IntOf(x) ==
    LET q  == AbsInt(x[1]) \div x[2]
        sg == Sgn(x[1])
    IN  IF q > 0 /\ AbsInt(x[1]) % x[2] = 0 THEN {sg * q, sg * (q - 1)} ELSE {sg * q}

\* lines 495-501: (0, 0) and (0, k) both become (1, 0)
SplitEntry(initial_contracts, secondary_contracts) ==
    IF initial_contracts = 0 /\ secondary_contracts = 0
    THEN [initial_contracts |-> 1, secondary_contracts |-> 0]
    ELSE IF initial_contracts = 0
    THEN [initial_contracts |-> 1, secondary_contracts |-> 0]
    ELSE [initial_contracts |-> initial_contracts, secondary_contracts |-> secondary_contracts]

\* The set of outcomes of calculate_position_size.  a.numpy_price says that
\* entry_price is a numpy.float64 (as asset_df['close'].iloc[0] is) and not a
\* Python float: a numpy division by zero gives inf or nan, which int()
\* refuses, where the Python one raises at once.  The dict of lines 506-520
\* reads mean_rev_score (lines 514, 515), a name bound neither in the
\* function nor in the module, so building it raises NameError.
calculate_position_size(a) ==
    LET max_risk      == Mul(Num(a.account_value), Div(a.risk_percent, 100))
        contract_risk == Mul(Mul(Num(a.entry_price), Div(a.stop_loss_percent, 100)),
                             Num(a.leverage))
        num_contracts == Quot(max_risk, contract_risk)
        first         == [max_risk |-> max_risk, contract_risk |-> contract_risk]
        x70           == Mul(num_contracts, <<7, 10>>)
        x30           == Mul(num_contracts, <<3, 10>>)
    IN  IF contract_risk[1] = 0 /\ ~a.numpy_price
        THEN {Raised("ZeroDivisionError", first)}
        ELSE IF IsNaN(x70) THEN {Raised("ValueError", first)}
        ELSE IF ~IsFinite(x70) THEN {Raised("OverflowError", first)}
        ELSE {Raised("NameError",
                     [max_risk        |-> max_risk,
                      contract_risk   |-> contract_risk,
                      split           |-> SplitEntry(i, j),
                      target_percent  |-> <<a.stop_loss_percent * 3, 2>>]) :
                 i \in IntOf(x70), j \in IntOf(x30)}

-----------------------------------------------------------------------------
(* Institutional activity (institutional_data.py).  An options chain is a  *)
(* sequence of contracts [type, volume, open_interest, strike,             *)
(* implied_volatility, expiration], expiration being a day number; an      *)
(* intraday series is a function from bar times (day numbers) to           *)
(* [close, volume].                                                        *)

Add(a, b) == Sub(a, <<-b[1], b[2]>>)

RECURSIVE Gcd(_, _)
Gcd(x, y) == IF y = 0 THEN x ELSE Gcd(y, x % y)

\* the same number in lowest terms
Reduce(a) ==
    IF a[2] = 0 THEN a
    ELSE LET g == Gcd(AbsInt(a[1]), a[2]) IN <<a[1] \div g, a[2] \div g>>

RECURSIVE SumOver(_, _)
SumOver(f, S) ==
    IF S = {} THEN 0 ELSE LET i == CHOOSE i \in S : TRUE IN f[i] + SumOver(f, S \ {i})

\* the k-th smallest of the numbers f[i], i in S
KthSmallest(f, S, k) ==
    LET i == CHOOSE i \in S :
                 /\ Cardinality({j \in S : Lt(f[j], f[i])}) < k
                 /\ Cardinality({j \in S : Le(f[j], f[i])}) >= k
    IN  f[i]

\* Series.quantile(0.95), linear interpolation between the two nearest
\* order statistics; NaN for an empty series
Quantile95(f, S) ==
    LET n   == Cardinality(S)
        pos == (n - 1) * 95
        lo  == pos \div 100
        xlo == KthSmallest(f, S, lo + 1)
        xhi == KthSmallest(f, S, IF lo + 2 > n THEN n ELSE lo + 2)
    IN  IF S = {} THEN NaN
        ELSE Reduce(Add(Reduce(xlo), Reduce(Mul(<<pos % 100, 100>>, Sub(xhi, xlo)))))

process_options_flow(options_data) ==
    LET options_chain == DictGet(options_data, "data", <<>>)
        all    == DOMAIN options_chain
        calls  == {i \in all : options_chain[i].type = "call"}
        puts   == {i \in all : options_chain[i].type = "put"}
        volume == [i \in all |-> options_chain[i].volume]
        oi     == [i \in all |-> options_chain[i].open_interest]
        call_volume == SumOver(volume, calls)
        put_volume  == SumOver(volume, puts)
        call_put_ratio == IF put_volume > 0 THEN Div(call_volume, put_volume) ELSE <<1, 0>>
        vnum   == [i \in all |-> Num(volume[i])]
        large_volume_threshold == Quantile95(vnum, all)
        large_volume_contracts == {i \in all : Ge(vnum[i], large_volume_threshold)}
        \* volume / open_interest with inf and NaN dropped
        rated  == {i \in all : oi[i] # 0}
        vol_oi_ratio == [i \in rated |-> Div(volume[i], oi[i])]
        unusual_activity == {i \in rated : Gt(vol_oi_ratio[i], Quantile95(vol_oi_ratio, rated))}
        large_call_volume == \E i \in large_volume_contracts \cap calls : volume[i] > 0
        large_put_volume  == \E i \in large_volume_contracts \cap puts : volume[i] > 0
    IN  IF options_chain = <<>>
        THEN [has_options_data       |-> FALSE,
              call_put_ratio         |-> Num(0),
              large_call_volume      |-> FALSE,
              large_put_volume       |-> FALSE,
              institutional_activity |-> FALSE]
        ELSE IF calls = {} \/ puts = {}
        \* grouped.get_group raises KeyError (lines 93, 94, 137)
        THEN [has_options_data       |-> TRUE,
              error                  |-> "KeyError",
              call_put_ratio         |-> Num(0),
              large_call_volume      |-> FALSE,
              large_put_volume       |-> FALSE,
              institutional_activity |-> FALSE]
        ELSE [has_options_data         |-> TRUE,
              call_volume              |-> call_volume,
              put_volume               |-> put_volume,
              call_open_interest       |-> SumOver(oi, calls),
              put_open_interest        |-> SumOver(oi, puts),
              call_put_ratio           |-> call_put_ratio,
              large_call_volume        |-> large_call_volume,
              large_put_volume         |-> large_put_volume,
              unusual_volume_contracts |-> Cardinality(large_volume_contracts),
              institutional_activity   |-> \/ Gt(call_put_ratio, Num(2))
                                           \/ Lt(call_put_ratio, <<1, 2>>)
                                           \/ large_call_volume
                                           \/ large_put_volume
                                           \/ unusual_activity # {},
              bullish_signal           |-> Gt(call_put_ratio, Num(2)) \/ large_call_volume,
              bearish_signal           |-> Lt(call_put_ratio, <<1, 2>>) \/ large_put_volume]

\* the status of a request that raised (transport error, timeout, HTTP
\* error status, body that is not JSON); any other request is "ok"
Failed == "failed"

RECURSIVE SortDescending(_)
SortDescending(S) ==
    IF S = {} THEN <<>>
    ELSE LET t == CHOOSE t \in S : \A u \in S : u <= t
         IN  <<t>> \o SortDescending(S \ {t})

\* detect_block_trades on the response to its intraday request; the series
\* is the "Time Series (5min)" entry, empty when the body has none
detect_block_trades(response, days) ==
    LET time_series == response.series
        index == SortDescending(DOMAIN time_series)
        start_date == index[1] - days
        kept  == {i \in DOMAIN index : index[i] >= start_date}
        bar   == [i \in kept |-> time_series[index[i]]]
        n     == Cardinality(kept)
        total == SumOver([i \in kept |-> bar[i].volume], kept)
        \* volume >= avg_volume * 5
        potential_blocks == {i \in kept : bar[i].volume * n >= 5 * total}
        price_impact ==
            [i \in potential_blocks |->
                IF i + 1 \in kept
                THEN AbsNum(Div(100 * (bar[i].close - bar[i + 1].close), bar[i + 1].close))
                ELSE Num(0)]
        confirmed_blocks == {i \in potential_blocks : Gt(price_impact[i], <<2, 10>>)}
    IN  IF response.status = Failed
        THEN [error                |-> "Exception",
              has_block_trades     |-> FALSE,
              block_trade_detected |-> FALSE]
        ELSE IF DOMAIN time_series = {}
        THEN [has_block_trades     |-> FALSE,
              block_trade_detected |-> FALSE,
              recent_block_trades  |-> 0]
        ELSE IF potential_blocks = {}
        \* confirmed_blocks is then the list [] (line 236), and reading its
        \* .empty (line 256) raises AttributeError, caught at line 259
        THEN [error                |-> "AttributeError",
              has_block_trades     |-> FALSE,
              block_trade_detected |-> FALSE]
        ELSE [has_block_trades     |-> TRUE,
              block_trade_detected |-> confirmed_blocks # {},
              recent_block_trades  |-> Cardinality(confirmed_blocks)]

\* the mean of f over S as a float
MeanOver(f, S) == Div(SumOver(f, S), Cardinality(S))

SkewDefault == [has_skew_data |-> FALSE, skew_direction |-> "neutral", implied_move |-> 0]

\* the nearest expiration that has not passed, however close
analyze_option_skew_any_expiry(options_data, today) ==
    LET options_chain == DictGet(options_data, "data", <<>>)
        all     == DOMAIN options_chain
        expirations == {options_chain[i].expiration : i \in all}
        valid_expirations == {e \in expirations : e - today >= 0}
        target_expiration == CHOOSE e \in valid_expirations : \A f \in valid_expirations : e <= f
        exp_chain == {i \in all : options_chain[i].expiration = target_expiration}
        calls   == {i \in exp_chain : options_chain[i].type = "call"}
        puts    == {i \in exp_chain : options_chain[i].type = "put"}
        strike  == [i \in all |-> options_chain[i].strike]
        iv      == [i \in all |-> options_chain[i].implied_volatility]
        lowest  == CHOOSE x \in {strike[i] : i \in calls} : \A i \in calls : x <= strike[i]
        highest == CHOOSE x \in {strike[i] : i \in calls} : \A i \in calls : x >= strike[i]
        \* twice current_price, to stay in integers
        current_price2 == lowest + highest
        distance2(i) == AbsInt(2 * strike[i] - current_price2)
        \* idxmin: the first row at the least distance
        Atm(S)  == CHOOSE i \in S : \A j \in S :
                       distance2(i) < distance2(j) \/ (distance2(i) = distance2(j) /\ i <= j)
        otm_calls == {i \in calls : 2 * strike[i] > current_price2}
        otm_puts  == {i \in puts : 2 * strike[i] < current_price2}
        otm_put_iv  == MeanOver(iv, otm_puts)
        otm_call_iv == MeanOver(iv, otm_calls)
        skew_ratio  == IF Gt(otm_call_iv, Num(0)) THEN Quot(otm_put_iv, otm_call_iv) ELSE Num(1)
    IN  IF options_chain = <<>> THEN SkewDefault
        ELSE IF valid_expirations = {} THEN SkewDefault
        ELSE IF calls = {} \/ puts = {} THEN SkewDefault
        ELSE IF otm_calls = {} \/ otm_puts = {} THEN SkewDefault
        ELSE [has_skew_data          |-> TRUE,
              skew_ratio             |-> skew_ratio,
              skew_direction         |-> IF Gt(skew_ratio, <<11, 10>>) THEN "bearish"
                                         ELSE IF Lt(skew_ratio, <<9, 10>>) THEN "bullish"
                                         ELSE "neutral",
              days_to_expiry         |-> target_expiration - today,
              atm_iv                 |-> <<iv[Atm(calls)] + iv[Atm(puts)], 2>>,
              current_price_estimate |-> <<current_price2, 2>>]

\* analyze_option_skew after its options request returned options_data;
\* today is datetime.now().date() as a day number.  implied_move_percent (a
\* square root of days_to_expiry) is left out of the result.
analyze_option_skew(options_data, today) ==
    LET options_chain == DictGet(options_data, "data", <<>>)
        all     == DOMAIN options_chain
        expirations == {options_chain[i].expiration : i \in all}
        valid_expirations == {e \in expirations : e - today >= 7}
        target_expiration == CHOOSE e \in valid_expirations : \A f \in valid_expirations : e <= f
        exp_chain == {i \in all : options_chain[i].expiration = target_expiration}
        calls   == {i \in exp_chain : options_chain[i].type = "call"}
        puts    == {i \in exp_chain : options_chain[i].type = "put"}
        strike  == [i \in all |-> options_chain[i].strike]
        iv      == [i \in all |-> options_chain[i].implied_volatility]
        lowest  == CHOOSE x \in {strike[i] : i \in calls} : \A i \in calls : x <= strike[i]
        highest == CHOOSE x \in {strike[i] : i \in calls} : \A i \in calls : x >= strike[i]
        \* twice current_price, to stay in integers
        current_price2 == lowest + highest
        distance2(i) == AbsInt(2 * strike[i] - current_price2)
        \* idxmin: the first row at the least distance
        Atm(S)  == CHOOSE i \in S : \A j \in S :
                       distance2(i) < distance2(j) \/ (distance2(i) = distance2(j) /\ i <= j)
        otm_calls == {i \in calls : 2 * strike[i] > current_price2}
        otm_puts  == {i \in puts : 2 * strike[i] < current_price2}
        otm_put_iv  == MeanOver(iv, otm_puts)
        otm_call_iv == MeanOver(iv, otm_calls)
        skew_ratio  == IF Gt(otm_call_iv, Num(0)) THEN Quot(otm_put_iv, otm_call_iv) ELSE Num(1)
    IN  IF options_chain = <<>> THEN SkewDefault
        ELSE IF valid_expirations = {} THEN SkewDefault
        ELSE IF calls = {} \/ puts = {} THEN SkewDefault
        ELSE IF otm_calls = {} \/ otm_puts = {} THEN SkewDefault
        ELSE [has_skew_data          |-> TRUE,
              skew_ratio             |-> skew_ratio,
              skew_direction         |-> IF Gt(skew_ratio, <<11, 10>>) THEN "bearish"
                                         ELSE IF Lt(skew_ratio, <<9, 10>>) THEN "bullish"
                                         ELSE "neutral",
              days_to_expiry         |-> target_expiration - today,
              atm_iv                 |-> <<iv[Atm(calls)] + iv[Atm(puts)], 2>>,
              current_price_estimate |-> <<current_price2, 2>>]

\* confidence_score counting any skew data, neutral or not
CombineInstitutional_any_skew(symbol, now, options_analysis, block_trade_analysis, skew_analysis) ==
    LET flow      == DictGet(options_analysis, "institutional_activity", FALSE)
        block     == DictGet(block_trade_analysis, "block_trade_detected", FALSE)
        bullish   == DictGet(options_analysis, "bullish_signal", FALSE)
        bearish   == DictGet(options_analysis, "bearish_signal", FALSE)
        has_skew  == DictGet(skew_analysis, "has_skew_data", FALSE)
        skew_direction == DictGet(skew_analysis, "skew_direction", "neutral")
        flow_bias == IF bullish /\ ~bearish THEN "bullish"
                     ELSE IF bearish /\ ~bullish THEN "bearish"
                     ELSE "neutral"
        directional_bias ==
            IF has_skew /\ skew_direction # "neutral"
            THEN (IF flow_bias = "neutral" THEN skew_direction
                  ELSE IF flow_bias # skew_direction THEN "mixed"
                  ELSE flow_bias)
            ELSE flow_bias
    IN  [symbol                          |-> symbol,
         timestamp                       |-> now,
         institutional_activity_detected |-> flow \/ block,
         directional_bias                |-> directional_bias,
         options_flow_analysis           |-> options_analysis,
         block_trade_analysis            |-> block_trade_analysis,
         options_skew_analysis           |-> skew_analysis,
         confidence_score                |-> <<B2I(flow) + B2I(block)
                                               + B2I(has_skew), 3>>]


\* both flow triggers at once voting "mixed"
CombineInstitutional_mixed_flow(symbol, now, options_analysis, block_trade_analysis, skew_analysis) ==
    LET flow      == DictGet(options_analysis, "institutional_activity", FALSE)
        block     == DictGet(block_trade_analysis, "block_trade_detected", FALSE)
        bullish   == DictGet(options_analysis, "bullish_signal", FALSE)
        bearish   == DictGet(options_analysis, "bearish_signal", FALSE)
        has_skew  == DictGet(skew_analysis, "has_skew_data", FALSE)
        skew_direction == DictGet(skew_analysis, "skew_direction", "neutral")
        flow_bias == IF bullish /\ ~bearish THEN "bullish"
                     ELSE IF bearish /\ ~bullish THEN "bearish"
                     ELSE IF bullish /\ bearish THEN "mixed"
                     ELSE "neutral"
        directional_bias ==
            IF has_skew /\ skew_direction # "neutral"
            THEN (IF flow_bias = "neutral" THEN skew_direction
                  ELSE IF flow_bias # skew_direction THEN "mixed"
                  ELSE flow_bias)
            ELSE flow_bias
    IN  [symbol                          |-> symbol,
         timestamp                       |-> now,
         institutional_activity_detected |-> flow \/ block,
         directional_bias                |-> directional_bias,
         options_flow_analysis           |-> options_analysis,
         block_trade_analysis            |-> block_trade_analysis,
         options_skew_analysis           |-> skew_analysis,
         confidence_score                |-> <<B2I(flow) + B2I(block)
                                               + B2I(has_skew /\ skew_direction # "neutral"), 3>>]


\* lines 420-456 of analyze_institutional_activity, from the three analyses
CombineInstitutional(symbol, now, options_analysis, block_trade_analysis, skew_analysis) ==
    LET flow      == DictGet(options_analysis, "institutional_activity", FALSE)
        block     == DictGet(block_trade_analysis, "block_trade_detected", FALSE)
        bullish   == DictGet(options_analysis, "bullish_signal", FALSE)
        bearish   == DictGet(options_analysis, "bearish_signal", FALSE)
        has_skew  == DictGet(skew_analysis, "has_skew_data", FALSE)
        skew_direction == DictGet(skew_analysis, "skew_direction", "neutral")
        flow_bias == IF bullish /\ ~bearish THEN "bullish"
                     ELSE IF bearish /\ ~bullish THEN "bearish"
                     ELSE "neutral"
        directional_bias ==
            IF has_skew /\ skew_direction # "neutral"
            THEN (IF flow_bias = "neutral" THEN skew_direction
                  ELSE IF flow_bias # skew_direction THEN "mixed"
                  ELSE flow_bias)
            ELSE flow_bias
    IN  [symbol                          |-> symbol,
         timestamp                       |-> now,
         institutional_activity_detected |-> flow \/ block,
         directional_bias                |-> directional_bias,
         options_flow_analysis           |-> options_analysis,
         block_trade_analysis            |-> block_trade_analysis,
         options_skew_analysis           |-> skew_analysis,
         confidence_score                |-> <<B2I(flow) + B2I(block)
                                               + B2I(has_skew /\ skew_direction # "neutral"), 3>>]

-----------------------------------------------------------------------------
(* Inputs                                                                  *)

\* bars of flat history that precede the free bars of a long series
HistLen == 20
\* free bars at the recent end of a series
MaxTail == 4

BaseBar == Bar(100, 100, 100, 10)

\* a free bar before the latest: flat, base volume
PlainBars == {Bar(c, c, c, 10) : c \in {97, 100, 103}}

\* the latest bar: flat or wide and skewed upward, base or triple volume
LastBars ==
    {Bar(c + up, c - (up \div 3), c, v) : c \in {99, 100, 101}, up \in {0, 9}, v \in {10, 30}}

Tails(k) == {t \o <<b>> : t \in [1..(k - 1) -> PlainBars], b \in LastBars}

\* price histories, oldest bar first
Histories ==
    {[i \in 1..h |-> BaseBar] \o t :
        h \in {0, HistLen}, t \in UNION {Tails(k) : k \in 1..MaxTail}}

Reverse(s) == [i \in 1..Len(s) |-> s[Len(s) + 1 - i]]

\* What get_price_data returns (lines 79-83): a DatetimeIndex sorted
\* descending, so the rows are most-recent-first and [0] is the first row
PipelineFrame(bars) == Frame(Reverse(bars), 1)

\* The same bars oldest-first under an integer index that counts bars back
\* from the latest, so [0] is the last row
LabelledFrame(bars) == Frame(bars, Len(bars))

PipelineFrames == {PipelineFrame(bars) : bars \in Histories}

AssetFrames == PipelineFrames \cup {LabelledFrame(bars) : bars \in Histories}

\* market contexts handed to generate_setup_report directly
MarketConditions ==
    {[sp500_above_ma       |-> a,
      vix_declining        |-> d,
      vix_2day_change      |-> IF d THEN Num(-5) ELSE Num(3),
      sector_performance   |-> IF o THEN 2 ELSE -1,
      sector_outperforming |-> o] : a \in BOOLEAN, d \in BOOLEAN, o \in BOOLEAN}

-----------------------------------------------------------------------------
(* Data layer: what each fetch function makes of the response              *)

\* get_price_data (lines 47-86): every exception, the ValueError for a body
\* without a time series included, is re-raised as Exception; the series of
\* a response is given oldest bar first and is sorted most-recent-first
get_price_data(response) ==
    IF response.status = Failed \/ response.series = <<>>
    THEN Raised("Exception", "Error fetching price data")
    ELSE Returned(PipelineFrame(response.series))

\* get_sector_performance (lines 117-131): the "Rank A" table, {} without it
get_sector_performance(response) ==
    IF response.status = Failed
    THEN Raised("Exception", "Error fetching sector performance")
    ELSE Returned(response.sectors)

\* get_stock_sector (lines 151-163)
get_stock_sector(response) ==
    IF response.status = Failed
    THEN Raised("Exception", "Error fetching stock sector")
    ELSE Returned(DictGet(response.body, "Sector", "Unknown"))

\* a fetch that answers a failed request with an empty body
get_options_data_degrading(response) ==
    IF response.status = Failed THEN Returned(<<>>) ELSE Returned(response.body)

\* get_options_data (lines 44-58); a body with "Error Message" raises too
get_options_data(response) ==
    IF response.status = Failed \/ "Error Message" \in DOMAIN response.body
    THEN Raised("Exception", "Error fetching options data")
    ELSE Returned(response.body)

-----------------------------------------------------------------------------
(* Timing overlay (futures_strategy.py).  A clock is [day, minute]: the    *)
(* day number, day 0 being a Monday, and the minute of the day.            *)

Weekday(clock) == clock.day % 7

day_edge_table ==
    [d \in 0..4 |->
        [day         |-> <<"Monday", "Tuesday", "Wednesday", "Thursday", "Friday">>[d + 1],
         edge        |-> <<<<85, 100>>, <<115, 100>>, <<125, 100>>, <<95, 100>>, <<80, 100>>>>[d + 1],
         recommended |-> d \in {1, 2}]]

\* day_edge[today] is a KeyError for a weekday the table does not have
get_day_of_week_edge(clock) ==
    LET today == Weekday(clock)
    IN  IF today \notin DOMAIN day_edge_table
        THEN Raised("KeyError", IF today = 5 THEN "5" ELSE "6")
        ELSE Returned([current_day      |-> day_edge_table[today].day,
                       current_day_edge |-> day_edge_table[today].edge,
                       recommended_day  |-> day_edge_table[today].recommended,
                       day_edge_data    |-> day_edge_table])

get_intraday_timing_edge(response, clock) ==
    LET fetched == get_price_data(response)
        df      == fetched.value
        now     == clock.minute
        market_is_open     == 9 * 60 + 30 <= now /\ now <= 16 * 60
        avoid_first_30min  == now < 10 * 60
        avoid_last_60min   == now > 15 * 60
        optimal_entry_time == ~(avoid_first_30min \/ avoid_last_60min) /\ market_is_open
        ma5(p)   == calculate_moving_average(df, 5, "close", p)
        close(p) == Num(df.rows[p].close)
        \* .iloc[1] and .iloc[0]: the second and the first row
        uptrend  == Gt(close(2), ma5(2))
        pullback == \/ uptrend /\ Lt(close(1), ma5(1))
                    \/ ~uptrend /\ Gt(close(1), ma5(1))
    IN  IF fetched.raised # None
        THEN [error              |-> fetched.detail,
              market_is_open     |-> FALSE,
              optimal_entry_time |-> FALSE,
              entry_recommended  |-> FALSE]
        ELSE IF NRows(df) > 5
        THEN [market_is_open     |-> market_is_open,
              optimal_entry_time |-> optimal_entry_time,
              avoid_first_30min  |-> avoid_first_30min,
              avoid_last_60min   |-> avoid_last_60min,
              current_time       |-> now,
              uptrend_detected   |-> uptrend,
              pullback_detected  |-> pullback,
              entry_recommended  |-> optimal_entry_time /\ pullback]
        ELSE [market_is_open     |-> market_is_open,
              optimal_entry_time |-> optimal_entry_time,
              avoid_first_30min  |-> avoid_first_30min,
              avoid_last_60min   |-> avoid_last_60min,
              current_time       |-> now,
              uptrend_detected   |-> None,
              pullback_detected  |-> None,
              entry_recommended  |-> FALSE]

-----------------------------------------------------------------------------
(* analyze_futures_trade_setup, steps 7 and 8 and the except clause        *)

\* str(e) of an exception
StrOf(r) ==
    IF r.raised = "NameError" THEN "name 'mean_rev_score' is not defined"
    ELSE IF r.raised = "ZeroDivisionError" THEN "float division by zero"
    ELSE IF r.raised = "OverflowError" THEN "cannot convert float infinity to integer"
    ELSE IF r.raised = "ValueError" THEN "cannot convert float NaN to integer"
    ELSE r.detail

\* lines 230-236
ErrorResult(symbol, e) ==
    [error          |-> StrOf(e),
     symbol         |-> symbol,
     trade_signal   |-> FALSE,
     recommendation |-> "ERROR IN ANALYSIS"]

TradeSignal_either(ready_to_trade, institutional_activity_detected) ==
    ready_to_trade \/ institutional_activity_detected

\* line 195
TradeSignal(ready_to_trade, institutional_activity_detected) ==
    ready_to_trade /\ institutional_activity_detected

\* lines 198-207
FinalRecommendation(trade_signal, direction, day, intraday_edge) ==
    IF trade_signal
    THEN (IF day.recommended_day /\ intraday_edge.entry_recommended
          THEN <<"ENTER", direction, "POSITION NOW">>
          ELSE <<"SETUP VALID FOR", direction, ", BUT TIMING IS SUBOPTIMAL">>)
    ELSE <<"NO TRADE SETUP DETECTED">>

\* The outcomes of lines 182-228 for the locals of the evaluation: the
\* result dict, or the exception of the sizing call.  formatted_report, a
\* rendering of the same fields, is left out.
CombineAnalysis(args, df, report, mc, institutional, day, intraday_edge) ==
    LET sizings ==
            IF report.ready_to_trade
            THEN calculate_position_size(
                     [account_value     |-> args.account_value,
                      entry_price       |-> df.rows[1].close,
                      stop_loss_percent |-> 7,
                      risk_percent      |-> 3,
                      leverage          |-> args.leverage,
                      numpy_price       |-> TRUE])
            ELSE {Returned(None)}
        trade_signal == TradeSignal(report.ready_to_trade,
                                    institutional.institutional_activity_detected)
    IN  {IF position_sizing.raised # None THEN position_sizing
         ELSE Returned(
            [symbol                 |-> args.symbol,
             timestamp              |-> args.clock,
             price                  |-> df.rows[1].close,
             trade_signal           |-> trade_signal,
             recommendation         |-> FinalRecommendation(trade_signal, report.recommendation,
                                                            day, intraday_edge),
             technical_analysis     |-> report,
             institutional_analysis |-> institutional,
             market_condition       |-> mc,
             timing_analysis        |-> [day_of_week     |-> day,
                                         intraday_timing |-> intraday_edge],
             position_sizing        |-> position_sizing.value]) :
         position_sizing \in sizings}

-----------------------------------------------------------------------------
(* SpecReport: generate_setup_report applied to any frame and any context  *)

\* frames with the columns and no bar
EmptyFrames == {PipelineFrame(<<>>), LabelledFrame(<<>>)}

InitReport ==
    /\ pc = "report_input"
    /\ asset_df \in AssetFrames \cup EmptyFrames
    /\ market_condition \in MarketConditions
    /\ setup_report = None
    /\ call = None
    /\ result = None
    /\ NoEvaluation

\* On a frame without bars the first subscript [0], atr[0] at line 401,
\* raises: IndexError where the integer key falls back to the position,
\* KeyError where it is looked up as a label.
GenerateSetupReport ==
    /\ pc = "report_input"
    /\ IF NRows(asset_df) = 0
       THEN /\ setup_report' = Raised(IF asset_df.label0 = 1 THEN "IndexError" ELSE "KeyError",
                                      "0")
            /\ pc' = "report_raised"
       ELSE /\ setup_report' = generate_setup_report("SYM", asset_df, market_condition)
            /\ pc' = "reported"
    /\ UNCHANGED <<call, asset_df, market_condition, result, evalVars>>

NextReport == GenerateSetupReport

SpecReport == InitReport /\ [][NextReport]_vars

Reported == pc = "reported"

-----------------------------------------------------------------------------
(* SpecIndicators: the indicator functions called on their own, on series  *)
(* of at most MaxBars bars, for windows shorter and longer than the series *)

MaxBars == 4

\* bars with a range of 2 around the close
ShortBars == {Bar(c + 1, c - 1, c, v) : c \in {99, 100, 102}, v \in {10, 30}}

RECURSIVE SeqsUpTo(_, _)
SeqsUpTo(S, n) ==
    IF n = 0 THEN {<<>>}
    ELSE LET shorter == SeqsUpTo(S, n - 1)
         IN  shorter \cup {Append(q, x) : q \in {r \in shorter : Len(r) = n - 1}, x \in S}

ShortFrames == {Frame(rows, 1) : rows \in SeqsUpTo(ShortBars, MaxBars)}

Windows == {2, 3, 5}

InitIndicators ==
    /\ pc = "indicator_input"
    /\ call \in [window : Windows, column : {"close"}]
    /\ asset_df \in ShortFrames
    /\ market_condition = None
    /\ setup_report = None
    /\ result = None
    /\ NoEvaluation

\* each indicator's Series, position by position
CalculateIndicators ==
    /\ pc = "indicator_input"
    /\ LET at == 1..NRows(asset_df)
       IN  result' =
             [moving_average  |-> [p \in at |-> calculate_moving_average(asset_df, call.window,
                                                                         call.column, p)],
              bollinger_bands |-> [p \in at |-> calculate_bollinger_bands(asset_df, call.window, 2,
                                                                          call.column, p)],
              rsi             |-> [p \in at |-> calculate_rsi(asset_df, call.window,
                                                              call.column, p)],
              atr             |-> [p \in at |-> calculate_atr(asset_df, call.window, p)]]
    /\ pc' = "indicators"
    /\ UNCHANGED <<call, asset_df, market_condition, setup_report, evalVars>>

NextIndicators == CalculateIndicators

SpecIndicators == InitIndicators /\ [][NextIndicators]_vars

Calculated == pc = "indicators"

-----------------------------------------------------------------------------
(* SpecSizing: calculate_position_size called on its own                   *)

AccountValues == {0, 1000, 10000}

EntryPrices == {-50, 0, 100, 400}

StopLossPercents == {0, 7}

RiskPercents == {0, 3}

Leverages == {0, 1, 10}

SizingArgs ==
    [account_value : AccountValues, entry_price : EntryPrices,
     stop_loss_percent : StopLossPercents, risk_percent : RiskPercents,
     leverage : Leverages, numpy_price : BOOLEAN]

InitSizing ==
    /\ pc = "sizing_input"
    /\ call \in SizingArgs
    /\ asset_df = None
    /\ market_condition = None
    /\ setup_report = None
    /\ result = None
    /\ NoEvaluation

CalculatePositionSize ==
    /\ pc = "sizing_input"
    /\ result' \in calculate_position_size(call)
    /\ pc' = "sized"
    /\ UNCHANGED <<call, asset_df, market_condition, setup_report, evalVars>>

NextSizing == CalculatePositionSize

SpecSizing == InitSizing /\ [][NextSizing]_vars

Sized == pc = "sized"

-----------------------------------------------------------------------------
(* SpecFlow: process_options_flow called on its own, on chains of equal    *)
(* call contracts and one or two put contracts                             *)

\* the aggregate call volume of a chain and the number of call contracts it
\* is spread over in equal parts
CallTotals == {100, 150, 1000}

CallCounts == {1, 2, 5, 10}

\* the volumes of the put contracts
PutVolumes == {<<>>, <<100>>, <<50, 50>>, <<100, 0>>}

\* the open interest of the first contract and of every other contract
OpenInterests == {<<10, 10>>, <<0, 0>>, <<1, 1000>>}

FlowContract(type, volume, open_interest) ==
    [type |-> type, volume |-> volume, open_interest |-> open_interest]

FlowChain(total, n, put_volumes, oi) ==
    [i \in 1..n |-> FlowContract("call", total \div n, IF i = 1 THEN oi[1] ELSE oi[2])]
    \o [i \in 1..Len(put_volumes) |-> FlowContract("put", put_volumes[i], oi[2])]

FlowChains ==
    {<<>>} \cup {FlowChain(total, n, pv, oi) :
                    total \in CallTotals, n \in CallCounts, pv \in PutVolumes, oi \in OpenInterests}

InitFlow ==
    /\ pc = "flow_input"
    /\ call \in {[options_data |-> [data |-> chain]] : chain \in FlowChains}
    /\ asset_df = None
    /\ market_condition = None
    /\ setup_report = None
    /\ result = None
    /\ NoEvaluation

ProcessOptionsFlow ==
    /\ pc = "flow_input"
    /\ result' = process_options_flow(call.options_data)
    /\ pc' = "flowed"
    /\ UNCHANGED <<call, asset_df, market_condition, setup_report, evalVars>>

NextFlow == ProcessOptionsFlow

SpecFlow == InitFlow /\ [][NextFlow]_vars

Flowed == pc = "flowed"

-----------------------------------------------------------------------------
(* Spec: one evaluation, analyze_futures_trade_setup, against a data       *)
(* source that answers each request with an error, with a body that lacks  *)
(* the data, or with data.  The coroutine is alone on its event loop; each *)
(* action runs it from one await of a request to the next.  The clock is   *)
(* read once per evaluation.                                               *)

Ok(payload) == [status |-> "ok"] @@ payload

\* daily and intraday price series, oldest bar first
RisingSeries  == <<Bar(98, 96, 97, 10), Bar(101, 99, 100, 10), Bar(104, 102, 103, 10)>>

FallingSeries == <<Bar(104, 102, 103, 10), Bar(101, 99, 100, 10), Bar(98, 96, 97, 30)>>

\* a flat month that ends on a wide bar with triple volume
LongSeries == [i \in 1..21 |-> BaseBar] \o <<Bar(109, 97, 100, 30)>>

\* six 15-minute bars that end on a dip
SessionSeries == [i \in 1..5 |-> Bar(101, 99, 100, 10)] \o <<Bar(100, 98, 99, 10)>>

PriceResponses(choices) ==
    {[status |-> Failed], Ok([series |-> <<>>])} \cup {Ok([series |-> h]) : h \in choices}

SectorResponses ==
    {[status |-> Failed],
     Ok([sectors |-> <<>>]),
     Ok([sectors |-> [k \in {"Technology", "Energy"} |-> IF k = "Technology" THEN 2 ELSE -1]])}

OverviewResponses ==
    {[status |-> Failed], Ok([body |-> <<>>])}
    \cup {Ok([body |-> [Sector |-> k]]) : k \in {"Technology", "Energy"}}

Contract(type, volume, open_interest, strike, implied_volatility, expiration) ==
    [type |-> type, volume |-> volume, open_interest |-> open_interest, strike |-> strike,
     implied_volatility |-> implied_volatility, expiration |-> expiration]

\* calls and puts on both sides of 100 for two expirations; put_iv is the
\* implied volatility of the puts, that of the calls being 20
Chain(call_volume, put_iv) ==
    <<Contract("call", call_volume, 10, 90, 20, 10), Contract("call", 10, 10, 110, 20, 10),
      Contract("put", 10, 10, 90, put_iv, 10), Contract("put", 10, 20, 110, put_iv, 10),
      Contract("call", 10, 10, 90, 20, 40), Contract("call", 10, 10, 110, 20, 40),
      Contract("put", 10, 10, 90, 20, 40), Contract("put", 10, 10, 110, 20, 40)>>

\* the same strikes and expirations with one heavy put; put_iv is the implied
\* volatility of the puts, that of the calls being 20
PutChain(put_volume, put_iv) ==
    <<Contract("call", 10, 10, 90, 20, 10), Contract("call", 10, 10, 110, 20, 10),
      Contract("put", put_volume, 10, 90, put_iv, 10), Contract("put", 10, 20, 110, put_iv, 10),
      Contract("call", 10, 10, 90, 20, 40), Contract("call", 10, 10, 110, 20, 40),
      Contract("put", 10, 10, 90, put_iv, 40), Contract("put", 10, 10, 110, put_iv, 40)>>

CallsOnly == <<Contract("call", 10, 10, 90, 20, 10), Contract("call", 10, 10, 110, 20, 10)>>

OptionsResponses ==
    {[status |-> Failed],
     Ok([body |-> ("Error Message" :> "Invalid API call.")]),
     Ok([body |-> <<>>]),
     Ok([body |-> [data |-> <<>>]]),
     Ok([body |-> [data |-> CallsOnly]]),
     Ok([body |-> [data |-> Chain(10, 20)]]),
     Ok([body |-> [data |-> Chain(60, 30)]]),
     Ok([body |-> [data |-> PutChain(60, 10)]])}

\* 5-minute bars by time; spike is the volume of the bar at time 6
Ticks(spike) ==
    [t \in 1..7 |-> IF t = 6 THEN [close |-> 101, volume |-> spike]
                    ELSE [close |-> 100, volume |-> 10]]

BlockResponses ==
    {[status |-> Failed], Ok([series |-> <<>>])} \cup {Ok([series |-> Ticks(v)]) : v \in {10, 300}}

Clocks == [day : 0..6, minute : {9 * 60 + 45, 12 * 60, 15 * 60 + 30}]

EvaluationArgs ==
    [symbol : {"SYM"}, account_value : {10000}, leverage : {10}, clock : Clocks]

\* What a request came to: "failed" when it raised or the data source
\* answered with an error message, "no_data" when the body lacks the payload
OutcomeOf(response, payload) ==
    IF response.status = Failed THEN "failed"
    ELSE IF "body" \in DOMAIN response /\ "Error Message" \in DOMAIN response.body THEN "failed"
    ELSE IF payload = <<>> THEN "no_data"
    ELSE "data"

Request(to, response, payload) == [to |-> to, outcome |-> OutcomeOf(response, payload)]

Init ==
    /\ pc = "get_vix_data"
    /\ call \in EvaluationArgs
    /\ asset_df = None
    /\ market_condition = None
    /\ setup_report = None
    /\ result = None
    /\ locals = <<>>
    /\ requests = <<>>

\* the except clause: the evaluation ends with the error result
Except(e) ==
    /\ result' = ErrorResult(call.symbol, e)
    /\ pc' = "done"

\* the call returned v, which is bound to name; the coroutine goes on to next
Bind(name, v, next) ==
    /\ locals' = locals @@ (name :> v)
    /\ pc' = next
    /\ result' = result

\* line 152
GetVixData ==
    /\ pc = "get_vix_data"
    /\ \E response \in PriceResponses({RisingSeries, FallingSeries}) :
          LET r == get_price_data(response)
          IN  /\ requests' = Append(requests, Request("vix", response, response.series))
              /\ IF r.raised # None
                 THEN Except(r) /\ UNCHANGED locals
                 ELSE Bind("vix_df", r.value, "get_sp500_data")
    /\ UNCHANGED <<call, asset_df, market_condition, setup_report>>

\* line 153
GetSp500Data ==
    /\ pc = "get_sp500_data"
    /\ \E response \in PriceResponses({RisingSeries, LongSeries}) :
          LET r == get_price_data(response)
          IN  /\ requests' = Append(requests, Request("sp500", response, response.series))
              /\ IF r.raised # None
                 THEN Except(r) /\ UNCHANGED locals
                 ELSE Bind("sp500_df", r.value, "get_sector_performance")
    /\ UNCHANGED <<call, asset_df, market_condition, setup_report>>

\* line 154
GetSectorPerformance ==
    /\ pc = "get_sector_performance"
    /\ \E response \in SectorResponses :
          LET r == get_sector_performance(response)
          IN  /\ requests' = Append(requests, Request("sector", response, response.sectors))
              /\ IF r.raised # None
                 THEN Except(r) /\ UNCHANGED locals
                 ELSE Bind("sector_data", r.value, "get_stock_sector")
    /\ UNCHANGED <<call, asset_df, market_condition, setup_report>>

\* line 155
GetStockSector ==
    /\ pc = "get_stock_sector"
    /\ \E response \in OverviewResponses :
          LET r == get_stock_sector(response)
          IN  /\ requests' = Append(requests, Request("overview", response, response.body))
              /\ IF r.raised # None
                 THEN Except(r) /\ UNCHANGED locals
                 ELSE Bind("stock_sector", r.value, "get_asset_data")
    /\ UNCHANGED <<call, asset_df, market_condition, setup_report>>

\* lines 158-173: the asset series, then the market condition and the
\* setup report, up to the first request of analyze_institutional_activity
GetAssetData ==
    /\ pc = "get_asset_data"
    /\ \E response \in PriceResponses({RisingSeries, FallingSeries, LongSeries}) :
          LET r  == get_price_data(response)
              mc == analyze_market_condition(locals.sp500_df, locals.vix_df,
                                             locals.sector_data, locals.stock_sector, 20)
          IN  /\ requests' = Append(requests, Request("asset", response, response.series))
              /\ IF r.raised # None
                 THEN /\ Except(r)
                      /\ UNCHANGED <<asset_df, market_condition, setup_report>>
                 ELSE /\ asset_df' = r.value
                      /\ market_condition' = mc
                      /\ setup_report' = generate_setup_report(call.symbol, r.value, mc)
                      /\ pc' = "get_options_data"
                      /\ result' = result
    /\ UNCHANGED <<call, locals>>

\* institutional_data.py lines 411-412
GetOptionsData ==
    /\ pc = "get_options_data"
    /\ \E response \in OptionsResponses :
          LET r == get_options_data(response)
          IN  /\ requests' = Append(requests,
                     Request("options_flow", response, DictGet(response.body, "data", <<>>)))
              /\ IF r.raised # None
                 THEN Except(r) /\ UNCHANGED locals
                 ELSE Bind("options_analysis", process_options_flow(r.value),
                           "detect_block_trades")
    /\ UNCHANGED <<call, asset_df, market_condition, setup_report>>

\* institutional_data.py line 415: detect_block_trades makes its own request
\* and returns a dict whatever happens
DetectBlockTrades ==
    /\ pc = "detect_block_trades"
    /\ \E response \in BlockResponses :
          /\ requests' = Append(requests, Request("intraday_5min", response, response.series))
          /\ Bind("block_trade_analysis", detect_block_trades(response, 5),
                  "analyze_option_skew")
    /\ UNCHANGED <<call, asset_df, market_condition, setup_report>>

\* institutional_data.py lines 418-456: the skew analysis, whose request is
\* made outside its try, and the combination of the three analyses
AnalyzeOptionSkew ==
    /\ pc = "analyze_option_skew"
    /\ \E response \in OptionsResponses :
          LET r == get_options_data(response)
          IN  /\ requests' = Append(requests,
                     Request("options_skew", response, DictGet(response.body, "data", <<>>)))
              /\ IF r.raised # None
                 THEN Except(r) /\ UNCHANGED locals
                 ELSE Bind("institutional_analysis",
                           CombineInstitutional(call.symbol, call.clock,
                                                locals.options_analysis,
                                                locals.block_trade_analysis,
                                                analyze_option_skew(r.value, call.clock.day)),
                           "get_day_of_week_edge")
    /\ UNCHANGED <<call, asset_df, market_condition, setup_report>>

\* line 179
GetDayOfWeekEdge ==
    /\ pc = "get_day_of_week_edge"
    /\ LET r == get_day_of_week_edge(call.clock)
       IN  IF r.raised # None
           THEN Except(r) /\ UNCHANGED locals
           ELSE Bind("day_edge", r.value, "get_intraday_timing_edge")
    /\ UNCHANGED <<call, asset_df, market_condition, setup_report, requests>>

\* lines 180-236: the intraday timing, whose request never raises to the
\* caller, then the sizing, the combination and the return
GetIntradayTimingEdge ==
    /\ pc = "get_intraday_timing_edge"
    /\ \E response \in PriceResponses({RisingSeries, SessionSeries}) :
          /\ requests' = Append(requests, Request("intraday_15min", response, response.series))
          /\ \E r \in CombineAnalysis(call, asset_df, setup_report, market_condition,
                                      locals.institutional_analysis, locals.day_edge,
                                      get_intraday_timing_edge(response, call.clock)) :
                IF r.raised # None THEN Except(r) ELSE result' = r.value /\ pc' = "done"
    /\ UNCHANGED <<call, asset_df, market_condition, setup_report, locals>>

Next ==
    \/ GetVixData
    \/ GetSp500Data
    \/ GetSectorPerformance
    \/ GetStockSector
    \/ GetAssetData
    \/ GetOptionsData
    \/ DetectBlockTrades
    \/ AnalyzeOptionSkew
    \/ GetDayOfWeekEdge
    \/ GetIntradayTimingEdge

Spec == Init /\ [][Next]_vars

Done == pc = "done"

-----------------------------------------------------------------------------
(* SpecCalendar: get_day_of_week_edge called on its own on any day of      *)
(* eight weeks; day 0 is a Monday                                          *)

CalendarClocks == [day : 0..55, minute : {9 * 60 + 45, 12 * 60, 15 * 60 + 30}]

InitCalendar ==
    /\ pc = "calendar_input"
    /\ call \in [clock : CalendarClocks]
    /\ asset_df = None
    /\ market_condition = None
    /\ setup_report = None
    /\ result = None
    /\ NoEvaluation

GetDayEdge ==
    /\ pc = "calendar_input"
    /\ result' = get_day_of_week_edge(call.clock)
    /\ pc' = "calendar_done"
    /\ UNCHANGED <<call, asset_df, market_condition, setup_report, evalVars>>

NextCalendar == GetDayEdge

SpecCalendar == InitCalendar /\ [][NextCalendar]_vars

DayEdgeGiven == pc = "calendar_done"

-----------------------------------------------------------------------------
(* SpecSkew: analyze_option_skew on chains that have, for some of three    *)
(* expirations, calls and puts on both sides of 100                        *)

\* the expirations of a chain, as day numbers
Expirations == {10, 14, 40}

\* the implied volatility of the puts of an expiration, that of the calls
\* being 20: ratios 0.5, 0.9, 1, 1.1 and 1.5
PutIvs == {10, 18, 20, 22, 30}

\* the days on which the analysis runs
Todays == {0, 4, 8, 34}

ExpiryChain(expiration, put_iv) ==
    <<Contract("call", 10, 10, 90, 20, expiration), Contract("call", 10, 10, 110, 20, expiration),
      Contract("put", 10, 10, 90, put_iv, expiration),
      Contract("put", 10, 10, 110, put_iv, expiration)>>

\* a chain lists some of the expirations, the farthest first; put_ivs maps
\* an expiration to its put IV, 0 for an expiration the chain does not have
SkewChain(put_ivs) ==
    (IF put_ivs[40] # 0 THEN ExpiryChain(40, put_ivs[40]) ELSE <<>>)
    \o (IF put_ivs[10] # 0 THEN ExpiryChain(10, put_ivs[10]) ELSE <<>>)
    \o (IF put_ivs[14] # 0 THEN ExpiryChain(14, put_ivs[14]) ELSE <<>>)

InitSkew ==
    /\ pc = "skew_input"
    /\ call \in [put_ivs : [Expirations -> PutIvs \cup {0}], today : Todays]
    /\ asset_df = None
    /\ market_condition = None
    /\ setup_report = None
    /\ result = None
    /\ NoEvaluation

AnalyzeSkew ==
    /\ pc = "skew_input"
    /\ result' = analyze_option_skew([data |-> SkewChain(call.put_ivs)], call.today)
    /\ pc' = "skew_analyzed"
    /\ UNCHANGED <<call, asset_df, market_condition, setup_report, evalVars>>

NextSkew == AnalyzeSkew

SpecSkew == InitSkew /\ [][NextSkew]_vars

SkewAnalyzed == pc = "skew_analyzed"

-----------------------------------------------------------------------------
(* SpecBlocks: detect_block_trades called on its own, on intraday series   *)
(* of MaxTicks bars in which any bar may carry a volume spike and a move   *)

MaxTicks == 7

\* a bar of base or spike volume, unchanged or moved by 1% or by 0.1%
TickBars == {[close |-> c, volume |-> v] : c \in {1000, 1001, 1010}, v \in {10, 300}}

\* the two oldest and the two latest bars are free, the others are quiet
TickSeries ==
    {[t \in 1..MaxTicks |-> IF t <= 2 THEN free[t]
                            ELSE IF t >= MaxTicks - 1 THEN free[t - MaxTicks + 4]
                            ELSE [close |-> 1000, volume |-> 10]] : free \in [1..4 -> TickBars]}

\* the trailing window in the unit of the bar times
BlockDays == {2, 5, MaxTicks}

InitBlocks ==
    /\ pc = "blocks_input"
    /\ call \in [series : TickSeries, days : BlockDays]
    /\ asset_df = None
    /\ market_condition = None
    /\ setup_report = None
    /\ result = None
    /\ NoEvaluation

DetectBlocks ==
    /\ pc = "blocks_input"
    /\ result' = detect_block_trades(Ok([series |-> call.series]), call.days)
    /\ pc' = "blocks_detected"
    /\ UNCHANGED <<call, asset_df, market_condition, setup_report, evalVars>>

NextBlocks == DetectBlocks

SpecBlocks == InitBlocks /\ [][NextBlocks]_vars

BlocksDetected == pc = "blocks_detected"

-----------------------------------------------------------------------------
(* SpecReplay: the checklist and the institutional assessment computed     *)
(* twice from the same frozen data (series, market context, options chain, *)
(* intraday bars), each run reading the clock when it runs                 *)

ReplayFrames == {PipelineFrame(LongSeries), LabelledFrame(LongSeries)}

ReplayOptions ==
    {[data |-> chain] : chain \in {<<>>, Chain(10, 20), Chain(60, 30), PutChain(60, 10)}}

\* one run at the clock given: generate_setup_report and lines 412-456 of
\* analyze_institutional_activity, both options requests answered with the
\* same chain
Assess(inputs, df, mc, clock) ==
    [checklist     |-> generate_setup_report(inputs.symbol, df, mc),
     institutional |-> CombineInstitutional(inputs.symbol, clock,
                                            process_options_flow(inputs.options_data),
                                            detect_block_trades(inputs.block_response, 5),
                                            analyze_option_skew(inputs.options_data, clock.day))]

InitReplay ==
    /\ pc = "first_run"
    /\ call \in [symbol : {"SYM"}, options_data : ReplayOptions,
                 block_response : BlockResponses, clocks : Clocks \X Clocks]
    /\ asset_df \in ReplayFrames
    /\ market_condition \in {mc \in MarketConditions : mc.sp500_above_ma /\ mc.vix_declining}
    /\ setup_report = None
    /\ result = <<>>
    /\ NoEvaluation

FirstRun ==
    /\ pc = "first_run"
    /\ result' = <<Assess(call, asset_df, market_condition, call.clocks[1])>>
    /\ pc' = "second_run"
    /\ UNCHANGED <<call, asset_df, market_condition, setup_report, evalVars>>

SecondRun ==
    /\ pc = "second_run"
    /\ result' = Append(result, Assess(call, asset_df, market_condition, call.clocks[2]))
    /\ pc' = "replayed"
    /\ UNCHANGED <<call, asset_df, market_condition, setup_report, evalVars>>

NextReplay == FirstRun \/ SecondRun

SpecReplay == InitReplay /\ [][NextReplay]_vars

Replayed == pc = "replayed"

-----------------------------------------------------------------------------
(* The tool server (server.py).  A request function returns a str (an      *)
(* error text) or a dict (the JSON body); here Str(text) and Dict(body).   *)
(* server.py and mean_reversion_tools.py import the request function as    *)
(* make_alpha_request from tools.py, which defines it as make_request.     *)

Str(text) == [str |-> text]

Dict(body) == [dict |-> body]

\* isinstance(x, str)
IsStr(x) == "str" \in DOMAIN x

\* tools.py lines 133-172: what the request function makes of the response
\* of the data source.  status is the HTTP status, or "timeout" or
\* "connect_error" for a request that did not complete; decodes says that
\* the body is JSON and json is the decoded body.
make_request(response) ==
    IF response.status = "timeout" THEN Str("Request timed out after 30 seconds.")
    ELSE IF response.status = "connect_error"
    THEN Str("Failed to connect to Alpha Vantage API.")
    ELSE IF response.status = "429" THEN Str("Rate limit exceeded.")
    ELSE IF response.status = "403" THEN Str("API key invalid or expired.")
    ELSE IF response.status # "200" THEN Str("HTTP error occurred")
    ELSE IF ~response.decodes THEN Str("Unexpected error occurred")
    ELSE IF "Error Message" \in DOMAIN response.json THEN Str("Alpha Vantage API error")
    ELSE IF "Note" \in DOMAIN response.json /\ response.json["Note"] = "API call frequency"
    THEN Str("Rate limit warning")
    ELSE Dict(response.json)

\* str.upper() on the symbols used
Upper(s) ==
    CASE s = "aapl" -> "AAPL"
      [] s = "btc"  -> "BTC"
      [] s = "usd"  -> "USD"
      [] OTHER      -> s

\* types.TextContent(type="text", text=...): the text as its fragments, the
\* numbers formatted into it kept apart in values
TextContent(fragments, values) == [type |-> "text", text |-> fragments, values |-> values]

\* "if not x" for an argument that is absent, None or an empty string
Missing(x) == x = None \/ x = ""

\* lines 338-358
HandleGetStockQuote(arguments, answers) ==
    LET symbol     == DictGet(arguments, "symbol", None)
        quote_data == answers[1]
        global_quote == DictGet(quote_data.dict, "Global Quote", <<>>)
    IN  IF Missing(symbol) THEN Returned(<<TextContent(<<"Missing symbol parameter">>, <<>>)>>)
        ELSE IF IsStr(quote_data)
        THEN Returned(<<TextContent(<<"Error: ", quote_data.str>>, <<>>)>>)
        \* format_quote, tools.py lines 174-191
        ELSE IF global_quote = <<>>
        THEN Returned(<<TextContent(<<"Stock quote for ", Upper(symbol), ":\n\n",
                                      "No quote data available in the response">>, <<>>)>>)
        ELSE Returned(<<TextContent(<<"Stock quote for ", Upper(symbol), ":\n\n", "Price: $">>,
                                    global_quote)>>)

\* lines 360-380
HandleGetCompanyInfo(arguments, answers) ==
    LET symbol       == DictGet(arguments, "symbol", None)
        company_data == answers[1]
    IN  IF Missing(symbol) THEN Returned(<<TextContent(<<"Missing symbol parameter">>, <<>>)>>)
        ELSE IF IsStr(company_data)
        THEN Returned(<<TextContent(<<"Error: ", company_data.str>>, <<>>)>>)
        \* format_company_info, tools.py lines 193-210
        ELSE IF company_data.dict = <<>>
        THEN Returned(<<TextContent(<<"Company information for ", Upper(symbol), ":\n\n",
                                      "No company information available in the response">>,
                                    <<>>)>>)
        ELSE Returned(<<TextContent(<<"Company information for ", Upper(symbol), ":\n\n",
                                      "Name: ">>, company_data.dict)>>)

\* A handler whose formatter (format_crypto_rate, format_time_series,
\* format_historical_options) is imported from tools.py, which does not
\* define it: the text is the header followed by what the formatter gives
HandleFormatted(arguments, key, header, answers) ==
    LET symbol == DictGet(arguments, key, None)
        data   == answers[1]
    IN  IF Missing(symbol)
        THEN Returned(<<TextContent(<<"Missing ", key, " parameter">>, <<>>)>>)
        ELSE IF IsStr(data) THEN Returned(<<TextContent(<<"Error: ", data.str>>, <<>>)>>)
        ELSE Returned(<<TextContent(<<header, Upper(symbol), ":\n\n", "formatted">>, data.dict)>>)

-----------------------------------------------------------------------------
(* mean_reversion_tools.py.  A daily time series is the sequence of its    *)
(* bars [close, volume], most recent first, as the functions sort it; a    *)
(* technical-analysis table is the sequence of its rows, latest first.     *)

\* None where a float is expected
NoFloat == <<>>

\* lines 16-60; the result is the tuple (is_declining, pct_change)
get_vix_trend(vix_data, days) ==
    LET time_series == DictGet(vix_data.dict, "Time Series (Daily)", <<>>)
        closes      == [i \in 1..(days + 1) |-> time_series[i].close]
    IN  IF IsStr(vix_data) THEN [is_declining |-> FALSE, pct_change |-> NoFloat]
        ELSE IF time_series = <<>> THEN [is_declining |-> FALSE, pct_change |-> NoFloat]
        ELSE IF Len(time_series) < days + 1 THEN [is_declining |-> FALSE, pct_change |-> NoFloat]
        ELSE [is_declining |-> \A i \in 1..days : closes[i] < closes[i + 1],
              pct_change   |-> Div(100 * (closes[1] - closes[days + 1]), closes[days + 1])]

\* the latest close against the mean of the (up to) period latest closes
check_sp500_above_ma_latest(sp500_data, period) ==
    LET time_series == DictGet(sp500_data.dict, "Time Series (Daily)", <<>>)
        closes      == [i \in 1..Len(time_series) |-> time_series[i].close]
        n           == IF Len(closes) < period THEN Len(closes) ELSE period
    IN  IF IsStr(sp500_data) THEN FALSE
        ELSE IF time_series = <<>> THEN FALSE
        ELSE Gt(Num(closes[1]), <<RangeSum(closes, 1, n), n>>)

\* lines 63-102: the rolling mean is taken over the frame sorted most recent
\* first and read at the first row
check_sp500_above_ma(sp500_data, period) ==
    LET time_series  == DictGet(sp500_data.dict, "Time Series (Daily)", <<>>)
        closes       == [i \in 1..Len(time_series) |-> time_series[i].close]
        latest_ma    == IF 1 < period THEN NaN ELSE <<RollingSum(closes, period, 1), period>>
    IN  IF IsStr(sp500_data) THEN FALSE
        ELSE IF time_series = <<>> THEN FALSE
        ELSE Gt(Num(closes[1]), latest_ma)

\* lines 105-184; bbands_data and quote_data are the answers to its two
\* requests, the second made only when the first gave a table
get_bollinger_bands(bbands_data, quote_data) ==
    LET tech_data    == DictGet(bbands_data.dict, "Technical Analysis: BBANDS", <<>>)
        latest_data  == tech_data[1]
        global_quote == DictGet(quote_data.dict, "Global Quote", <<>>)
        latest_price == DictGet(global_quote, "05. price", 0)
        upper_band   == DictGet(latest_data, "Real Upper Band", 0)
        lower_band   == DictGet(latest_data, "Real Lower Band", 0)
        middle_band  == DictGet(latest_data, "Real Middle Band", 0)
    IN  IF IsStr(bbands_data) THEN [error |-> bbands_data.str]
        ELSE IF tech_data = <<>> THEN [error |-> "No Bollinger Bands data available"]
        ELSE IF IsStr(quote_data) THEN [error |-> quote_data.str]
        ELSE [upper_band     |-> upper_band,
              middle_band    |-> middle_band,
              lower_band     |-> lower_band,
              latest_price   |-> latest_price,
              percent_b      |-> IF upper_band = lower_band THEN <<1, 2>>
                                 ELSE Div(latest_price - lower_band, upper_band - lower_band),
              is_above_upper |-> latest_price >= upper_band,
              is_below_lower |-> latest_price <= lower_band,
              date           |-> "latest_date"]

\* calculate_rsi of mean_reversion_tools.py, lines 187-221: the latest RSI
\* of the data source, -1 for an error
mean_reversion_tools_calculate_rsi(rsi_data) ==
    LET tech_data == DictGet(rsi_data.dict, "Technical Analysis: RSI", <<>>)
    IN  IF IsStr(rsi_data) THEN -1
        ELSE IF tech_data = <<>> THEN -1
        ELSE DictGet(tech_data[1], "RSI", -1)

\* check_volume_climax of mean_reversion_tools.py, lines 224-261; threshold
\* is a pair (<<3, 2>> for 1.5)
mean_reversion_tools_check_volume_climax(volume_data, threshold) ==
    LET time_series == DictGet(volume_data.dict, "Time Series (Daily)", <<>>)
        volume      == [i \in 1..Len(time_series) |-> time_series[i].volume]
        \* iloc[1:11]: the ten bars before the latest, fewer if there are fewer
        last        == IF Len(time_series) < 11 THEN Len(time_series) ELSE 11
        avg_volume  == Div(RangeSum(volume, 2, last), last - 1)
    IN  IF IsStr(volume_data) THEN FALSE
        ELSE IF time_series = <<>> THEN FALSE
        ELSE Gt(Num(volume[1]), Mul(avg_volume, threshold))

\* lines 264-323; answers are those to the six requests of the five
\* functions called, in order
check_mean_reversion_setup(symbol, rsi_threshold, volume_threshold, answers) ==
    LET vix            == get_vix_trend(answers[1], 3)
        sp500_above_ma == check_sp500_above_ma(answers[2], 20)
        bbands         == get_bollinger_bands(answers[3], answers[4])
        rsi            == mean_reversion_tools_calculate_rsi(answers[5])
        volume_climax  == mean_reversion_tools_check_volume_climax(answers[6], volume_threshold)
        is_long_setup  == /\ DictGet(bbands, "is_below_lower", FALSE)
                          /\ rsi < rsi_threshold
                          /\ vix.is_declining
                          /\ sp500_above_ma
                          /\ volume_climax
        is_short_setup == /\ DictGet(bbands, "is_above_upper", FALSE)
                          /\ rsi > 100 - rsi_threshold
                          /\ vix.is_declining
                          /\ ~sp500_above_ma
                          /\ volume_climax
    IN  [symbol         |-> symbol,
         vix_declining  |-> vix.is_declining,
         vix_change     |-> vix.pct_change,
         sp500_above_ma |-> sp500_above_ma,
         bbands         |-> bbands,
         rsi            |-> rsi,
         volume_climax  |-> volume_climax,
         is_long_setup  |-> is_long_setup,
         is_short_setup |-> is_short_setup,
         recommendation |-> IF is_long_setup THEN "LONG"
                            ELSE IF is_short_setup THEN "SHORT" ELSE "NEUTRAL"]

\* lines 326-361: the format spec :.2f applied to vix_change raises
\* TypeError when it is None
format_mean_reversion_analysis(analysis) ==
    IF analysis.vix_change = NoFloat
    THEN Raised("TypeError", "unsupported format string passed to NoneType.__format__")
    ELSE Returned([fragments |-> <<"Mean Reversion Analysis for ", analysis.symbol, ":\n\n",
                                   "RECOMMENDATION: ", analysis.recommendation>>,
                   values    |-> analysis])

-----------------------------------------------------------------------------
(* server.py: the handlers of the mean-reversion tools, of the sector      *)
(* table and of the ATR, and the dispatch of handle_call_tool              *)

\* lines 470-483: pct_change is formatted with :.2f
HandleGetVixTrend(arguments, answers) ==
    LET days == DictGet(arguments, "days", 3)
        vix  == get_vix_trend(answers[1], days)
    IN  IF vix.pct_change = NoFloat
        THEN Raised("TypeError", "unsupported format string passed to NoneType.__format__")
        ELSE Returned(<<TextContent(<<"VIX Trend Analysis (Last ", "days", " days):\n\n",
                                      IF vix.is_declining THEN "DECLINING" ELSE "RISING">>,
                                    vix)>>)

\* lines 485-498
HandleCheckMarketCondition(arguments, answers) ==
    LET period   == DictGet(arguments, "period", 20)
        above_ma == check_sp500_above_ma(answers[1], period)
    IN  Returned(<<TextContent(<<"S&P 500 Market Condition Analysis:\n\n",
                                 IF above_ma THEN "ABOVE" ELSE "BELOW">>,
                               [above_ma |-> above_ma])>>)

\* lines 500-532
HandleGetBollingerBands(arguments, answers) ==
    LET symbol == DictGet(arguments, "symbol", None)
        bbands == get_bollinger_bands(answers[1], answers[2])
    IN  IF Missing(symbol) THEN Returned(<<TextContent(<<"Missing symbol parameter">>, <<>>)>>)
        ELSE IF "error" \in DOMAIN bbands
        THEN Returned(<<TextContent(<<"Error: ", bbands.error>>, <<>>)>>)
        ELSE Returned(<<TextContent(
                 <<"Bollinger Bands Analysis for ", Upper(symbol), "Mean Reversion Signal: ",
                   IF bbands.is_above_upper THEN "POTENTIAL SHORT (Price above upper band)"
                   ELSE IF bbands.is_below_lower THEN "POTENTIAL LONG (Price below lower band)"
                   ELSE "NEUTRAL (Price within bands)">>,
                 bbands)>>)

\* lines 534-565
HandleCalculateRsi(arguments, answers) ==
    LET symbol == DictGet(arguments, "symbol", None)
        rsi    == mean_reversion_tools_calculate_rsi(answers[1])
    IN  IF Missing(symbol) THEN Returned(<<TextContent(<<"Missing symbol parameter">>, <<>>)>>)
        ELSE IF rsi = -1
        THEN Returned(<<TextContent(<<"Error calculating RSI for ", Upper(symbol)>>, <<>>)>>)
        ELSE Returned(<<TextContent(
                 <<"RSI(", "period", ") Analysis for ", Upper(symbol), "Mean Reversion Signal: ",
                   IF rsi < 10 THEN "STRONG BUY (Extremely oversold)"
                   ELSE IF rsi < 30 THEN "BUY (Oversold)"
                   ELSE IF rsi > 90 THEN "STRONG SELL (Extremely overbought)"
                   ELSE IF rsi > 70 THEN "SELL (Overbought)"
                   ELSE "NEUTRAL">>,
                 [rsi |-> rsi])>>)

\* lines 567-586
HandleCheckVolumeClimax(arguments, answers) ==
    LET symbol        == DictGet(arguments, "symbol", None)
        threshold     == DictGet(arguments, "threshold", <<3, 2>>)
        volume_climax == mean_reversion_tools_check_volume_climax(answers[1], threshold)
    IN  IF Missing(symbol) THEN Returned(<<TextContent(<<"Missing symbol parameter">>, <<>>)>>)
        ELSE Returned(<<TextContent(<<"Volume Climax Analysis for ", Upper(symbol), ":\n\n",
                                      "Volume climax detected: ",
                                      IF volume_climax THEN "YES" ELSE "NO">>,
                                    [volume_climax |-> volume_climax])>>)

\* lines 588-606
HandleAnalyzeMeanReversion(arguments, answers) ==
    LET symbol   == DictGet(arguments, "symbol", None)
        analysis == check_mean_reversion_setup(Upper(symbol),
                                               DictGet(arguments, "rsi_threshold", 10),
                                               DictGet(arguments, "volume_threshold", <<3, 2>>),
                                               answers)
        formatted_analysis == format_mean_reversion_analysis(analysis)
    IN  IF Missing(symbol) THEN Returned(<<TextContent(<<"Missing symbol parameter">>, <<>>)>>)
        ELSE IF formatted_analysis.raised # None THEN formatted_analysis
        ELSE Returned(<<TextContent(formatted_analysis.value.fragments,
                                    formatted_analysis.value.values)>>)

\* lines 608-648.  The body maps each timeframe to its table of sectors;
\* an entry that is a text and not a table has no items() (line 625).
HandleGetSectorPerformance(arguments, answers) ==
    LET sector_data == answers[1]
        timeframes  == DOMAIN sector_data.dict \ {"Meta Data"}
        one_day_sectors == DictGet(sector_data.dict, "Rank A: Real-Time Performance",
                                   [table |-> <<>>])
    IN  IF IsStr(sector_data)
        THEN Returned(<<TextContent(<<"Error: ", sector_data.str>>, <<>>)>>)
        ELSE IF \E t \in timeframes : "table" \notin DOMAIN sector_data.dict[t]
        THEN Raised("AttributeError", "'str' object has no attribute 'items'")
        ELSE Returned(<<TextContent(
                 <<"Sector Performance:\n">>
                 \o (IF one_day_sectors.table # <<>>
                     THEN <<"\nStrongest Sectors (Real-Time):\n">> ELSE <<>>),
                 [t \in timeframes |-> sector_data.dict[t].table])>>)

\* lines 650-704; the ATR table is the sequence of its values, latest
\* first, and the two divisions are those of Python floats
HandleGetAtr(arguments, answers) ==
    LET symbol    == DictGet(arguments, "symbol", None)
        atr_data  == answers[1]
        tech_data == DictGet(atr_data.dict, "Technical Analysis: ATR", <<>>)
        n         == IF Len(tech_data) >= 20 THEN 20 ELSE Len(tech_data)
        total     == RangeSum(tech_data, 1, n)
        avg_atr   == <<total, n>>
        atr_ratio == Div(tech_data[1] * n, total)
    IN  IF Missing(symbol) THEN Returned(<<TextContent(<<"Missing symbol parameter">>, <<>>)>>)
        ELSE IF IsStr(atr_data)
        THEN Returned(<<TextContent(<<"Error: ", atr_data.str>>, <<>>)>>)
        ELSE IF tech_data = <<>>
        THEN Returned(<<TextContent(<<"No ATR data available">>, <<>>)>>)
        ELSE IF total = 0 THEN Raised("ZeroDivisionError", "float division by zero")
        ELSE Returned(<<TextContent(<<"ATR Analysis for ", Upper(symbol), ":\n\n",
                                      "Volatility Status: ",
                                      IF Gt(atr_ratio, <<12, 10>>) THEN "ELEVATED" ELSE "NORMAL">>,
                                    [latest_atr |-> tech_data[1], avg_atr |-> avg_atr,
                                     atr_ratio |-> atr_ratio])>>)

\* lines 326-706: the if/elif chain over the tool name
handle_call_tool(name, arguments, answers) ==
    CASE name = "get-stock-quote"          -> HandleGetStockQuote(arguments, answers)
      [] name = "get-company-info"         -> HandleGetCompanyInfo(arguments, answers)
      [] name = "get-crypto-exchange-rate" ->
            HandleFormatted(arguments, "crypto_symbol", "Cryptocurrency exchange rate for ",
                            answers)
      [] name = "get-time-series"          ->
            HandleFormatted(arguments, "symbol", "Time series data for ", answers)
      [] name = "get-historical-options"   ->
            HandleFormatted(arguments, "symbol", "Historical options data for ", answers)
      [] name = "get-vix-trend"            -> HandleGetVixTrend(arguments, answers)
      [] name = "check-market-condition"   -> HandleCheckMarketCondition(arguments, answers)
      [] name = "get-bollinger-bands"      -> HandleGetBollingerBands(arguments, answers)
      [] name = "calculate-rsi"            -> HandleCalculateRsi(arguments, answers)
      [] name = "check-volume-climax"      -> HandleCheckVolumeClimax(arguments, answers)
      [] name = "analyze-mean-reversion"   -> HandleAnalyzeMeanReversion(arguments, answers)
      [] name = "get-sector-performance"   -> HandleGetSectorPerformance(arguments, answers)
      [] name = "get-atr"                  -> HandleGetAtr(arguments, answers)
      [] OTHER -> Returned(<<TextContent(<<"Unknown tool: ", name>>, <<>>)>>)

\* handle_call_tool of mean_reversion_server.py, lines 326-577: the branches
\* of the mean-reversion tools, of the sector table and of the ATR are those
\* of server.py line for line; any other name gets the last return
mean_reversion_server_handle_call_tool(name, arguments, answers) ==
    CASE name = "get-vix-trend"            -> HandleGetVixTrend(arguments, answers)
      [] name = "check-market-condition"   -> HandleCheckMarketCondition(arguments, answers)
      [] name = "get-bollinger-bands"      -> HandleGetBollingerBands(arguments, answers)
      [] name = "calculate-rsi"            -> HandleCalculateRsi(arguments, answers)
      [] name = "check-volume-climax"      -> HandleCheckVolumeClimax(arguments, answers)
      [] name = "analyze-mean-reversion"   -> HandleAnalyzeMeanReversion(arguments, answers)
      [] name = "get-sector-performance"   -> HandleGetSectorPerformance(arguments, answers)
      [] name = "get-atr"                  -> HandleGetAtr(arguments, answers)
      [] OTHER -> Returned(<<TextContent(
                      <<"Tool not implemented in mean reversion extension: ", name>>, <<>>)>>)

-----------------------------------------------------------------------------
(* SpecServer: one call of handle_call_tool against a data source that     *)
(* answers each request with an error or with a body                       *)

\* the names handle_list_tools advertises (lines 44-323)
AdvertisedTools ==
    {"get-stock-quote", "get-company-info", "get-crypto-exchange-rate", "get-time-series",
     "get-historical-options", "get-vix-trend", "check-market-condition",
     "get-bollinger-bands", "calculate-rsi", "check-volume-climax", "analyze-mean-reversion",
     "get-sector-performance", "get-atr"}

\* the names handle_list_tools of mean_reversion_server.py advertises
\* (lines 32-323)
mean_reversion_server_handle_list_tools ==
    {"get-stock-quote", "get-company-info", "get-crypto-exchange-rate", "get-time-series",
     "get-historical-options", "get-vix-trend", "check-market-condition",
     "get-bollinger-bands", "calculate-rsi", "check-volume-climax", "analyze-mean-reversion",
     "get-sector-performance", "get-atr"}

\* the names handle_call_tool of mean_reversion_server.py has a branch for
ExtensionBranches ==
    {"get-vix-trend", "check-market-condition", "get-bollinger-bands", "calculate-rsi",
     "check-volume-climax", "analyze-mean-reversion", "get-sector-performance", "get-atr"}

\* the two modules that register a handle_call_tool on the server object
Modules == {"server", "mean_reversion_server"}

\* the names a client calls: the advertised ones and the one the
\* repository's test calls
ToolNames == AdvertisedTools \cup {"get-top-gainers-losers"}

ToolArguments == {<<>>, [symbol |-> "aapl"], [symbol |-> ""], [crypto_symbol |-> "btc"]}

\* the functions a handler requests, in the order of its requests
FunctionsOf(name) ==
    CASE name = "get-stock-quote"          -> <<"GLOBAL_QUOTE">>
      [] name = "get-company-info"         -> <<"OVERVIEW">>
      [] name = "get-crypto-exchange-rate" -> <<"CURRENCY_EXCHANGE_RATE">>
      [] name = "get-time-series"          -> <<"TIME_SERIES_DAILY">>
      [] name = "get-historical-options"   -> <<"HISTORICAL_OPTIONS">>
      [] name = "get-vix-trend"            -> <<"TIME_SERIES_DAILY">>
      [] name = "check-market-condition"   -> <<"TIME_SERIES_DAILY">>
      [] name = "get-bollinger-bands"      -> <<"BBANDS", "GLOBAL_QUOTE">>
      [] name = "calculate-rsi"            -> <<"RSI">>
      [] name = "check-volume-climax"      -> <<"TIME_SERIES_DAILY">>
      [] name = "analyze-mean-reversion"   ->
            <<"TIME_SERIES_DAILY", "TIME_SERIES_DAILY", "BBANDS", "GLOBAL_QUOTE", "RSI",
              "TIME_SERIES_DAILY">>
      [] name = "get-sector-performance"   -> <<"SECTOR">>
      [] name = "get-atr"                  -> <<"ATR">>
      [] OTHER -> <<>>

Day(close, volume) == [close |-> close, volume |-> volume]

\* daily bars, most recent first: a fall that ends on triple volume, a rise
FallingDays == <<Day(96, 30), Day(97, 10), Day(98, 10), Day(99, 10), Day(100, 10)>>

RisingDays == <<Day(104, 10), Day(103, 10), Day(102, 10), Day(101, 10), Day(100, 10)>>

\* the bodies the data source has for a function
BodiesOf(function) ==
    CASE function = "TIME_SERIES_DAILY" ->
            {("Time Series (Daily)" :> s) : s \in {FallingDays, RisingDays, <<Day(100, 10)>>}}
      [] function = "GLOBAL_QUOTE" ->
            {("Global Quote" :> ("05. price" :> p)) : p \in {85, 115}}
      [] function = "BBANDS" ->
            {("Technical Analysis: BBANDS" :>
                 <<("Real Upper Band" :> 110) @@ ("Real Middle Band" :> 100)
                   @@ ("Real Lower Band" :> 90)>>)}
      [] function = "RSI" ->
            {("Technical Analysis: RSI" :> <<[RSI |-> v]>>) : v \in {5, 95}}
      [] function = "ATR" ->
            {("Technical Analysis: ATR" :> t) : t \in {<<3, 2, 2>>, <<0, 0>>}}
      [] function = "SECTOR" ->
            {("Rank A: Real-Time Performance" :> [table |-> [Energy |-> 2, Utilities |-> -1]])
                @@ ("Meta Data" :> [text |-> "US Sector Performance"]),
             ("Information" :> [text |-> "premium endpoint"])}
      [] OTHER -> {[Symbol |-> "AAPL"]}

ApiResponse(status, decodes, json) == [status |-> status, decodes |-> decodes, json |-> json]

\* the responses of the data source to a request; few is true for the
\* requests of a handler that makes several
ApiResponses(function, few) ==
    {ApiResponse(st, FALSE, <<>>) :
        st \in IF few THEN {"429"} ELSE {"429", "403", "500", "timeout", "connect_error", "200"}}
    \cup {ApiResponse("200", TRUE, <<>>)}
    \cup (IF few THEN {}
          ELSE {ApiResponse("200", TRUE, ("Error Message" :> "Invalid API call.")),
                ApiResponse("200", TRUE, ("Note" :> "API call frequency"))})
    \cup {ApiResponse("200", TRUE, body) : body \in BodiesOf(function)}

RECURSIVE AnswerSeqs(_, _)
AnswerSeqs(functions, few) ==
    IF functions = <<>> THEN {<<>>}
    ELSE {<<make_request(r)>> \o rest :
             r \in ApiResponses(Head(functions), few), rest \in AnswerSeqs(Tail(functions), few)}

\* the requests a call makes: none without the required argument, and no
\* quote request after a failed Bollinger request.  The outcome of a
\* request is "failed" when the request function returned an error text.
RequestsMade(name, arguments, answers) ==
    LET functions == FunctionsOf(name)
        required  == IF name = "get-crypto-exchange-rate" THEN "crypto_symbol" ELSE "symbol"
        unchecked == {"get-vix-trend", "check-market-condition", "get-sector-performance"}
    IN  IF name \notin unchecked /\ Missing(DictGet(arguments, required, None)) THEN <<>>
        ELSE SelectSeq([i \in 1..Len(functions) |->
                           [function |-> functions[i], at |-> i,
                            outcome  |-> IF IsStr(answers[i]) THEN "failed" ELSE "data",
                            error    |-> IF IsStr(answers[i]) THEN answers[i].str ELSE None]],
                       LAMBDA q : \/ q.function # "GLOBAL_QUOTE"
                                  \/ q.at = 1
                                  \/ /\ ~IsStr(answers[q.at - 1])
                                     /\ DictGet(answers[q.at - 1].dict,
                                                "Technical Analysis: BBANDS", <<>>) # <<>>)

InitServer ==
    /\ pc = "tool_call"
    /\ call \in [name : ToolNames, arguments : ToolArguments, module : Modules]
    /\ asset_df = None
    /\ market_condition = None
    /\ setup_report = None
    /\ result = None
    /\ NoEvaluation

HandleCallTool ==
    /\ pc = "tool_call"
    /\ \E answers \in AnswerSeqs(FunctionsOf(call.name), Len(FunctionsOf(call.name)) > 1) :
          /\ result' = IF call.module = "server"
                        THEN handle_call_tool(call.name, call.arguments, answers)
                        ELSE mean_reversion_server_handle_call_tool(call.name, call.arguments,
                                                                    answers)
          /\ requests' = IF /\ call.module = "mean_reversion_server"
                             /\ call.name \notin ExtensionBranches
                          THEN <<>>
                          ELSE RequestsMade(call.name, call.arguments, answers)
    /\ pc' = "tool_done"
    /\ UNCHANGED <<call, asset_df, market_condition, setup_report, locals>>

NextServer == HandleCallTool

SpecServer == InitServer /\ [][NextServer]_vars

Handled == pc = "tool_done"

-----------------------------------------------------------------------------
(* Properties of generate_setup_report (SpecReport)                        *)

ChecklistKeys ==
    {"vix_declining", "sector_outperforming", "sp500_above_ma",
     "mean_reversion_opportunity", "volume_climax", "rsi2_oversold",
     "at_bollinger_band", "extreme_roc", "price_near_vwap", "high_atr"}

Score(r) == r.technical_data.mean_reversion_score

\* the bands of a report, from its technical data
BandsOf(r) == [middle |-> r.technical_data.middle_band,
               width_sq |-> r.technical_data.band_width_sq]

\* C1: in every report confirmed_count is in 0..10 and is the number of true
\* entries among the 10 checklist items, needed_count is 7, and
\* ready_to_trade is true exactly when confirmed_count >= 7.
C1_CountAndReadiness ==
    Reported =>
        LET r == setup_report
            c == r.checklist_items
        IN  /\ DOMAIN c = ChecklistKeys
            /\ Cardinality(ChecklistKeys) = 10
            /\ r.confirmed_count \in 0..10
            /\ r.confirmed_count =
                  B2I(c.vix_declining) + B2I(c.sector_outperforming)
                  + B2I(c.sp500_above_ma) + B2I(c.mean_reversion_opportunity)
                  + B2I(c.volume_climax) + B2I(c.rsi2_oversold)
                  + B2I(c.at_bollinger_band) + B2I(c.extreme_roc)
                  + B2I(c.price_near_vwap) + B2I(c.high_atr)
            /\ r.needed_count = 7
            /\ r.ready_to_trade = (r.confirmed_count >= 7)

\* C1 witness: a report at the threshold (7 confirmed, ready) exists, and so
\* does its neighbour below; the first is the state asked for.
C1_Witness ==
    /\ Reported
    /\ setup_report.confirmed_count = 7
    /\ setup_report.ready_to_trade

\* C2: recommendation is LONG for a score > 0, SHORT for a score < 0 and
\* NEUTRAL for a score of exactly 0; and in every report that is NEUTRAL and
\* ready to trade the score is exactly 0.
C2_NeutralOnlyAtZero ==
    Reported =>
        LET r == setup_report
        IN  /\ Gt(Score(r), Num(0)) => r.recommendation = "LONG"
            /\ Lt(Score(r), Num(0)) => r.recommendation = "SHORT"
            /\ EqNum(Score(r), Num(0)) => r.recommendation = "NEUTRAL"
            /\ (r.recommendation = "NEUTRAL" /\ r.ready_to_trade)
                  => EqNum(Score(r), Num(0))

\* C3: the three direction-conditioned criteria follow the sign of the
\* score: positive tests RSI(2) < 10, the lower band and the bottom decile;
\* negative tests RSI(2) > 90, the upper band and the top decile, with
\* recommendation SHORT; a price at the lower band with a negative score
\* does not satisfy at_bollinger_band.
C3_DirectionConditioned ==
    Reported =>
        LET r  == setup_report
            c  == r.checklist_items
            td == r.technical_data
        IN  /\ Gt(Score(r), Num(0)) =>
                  /\ c.rsi2_oversold = Lt(td.rsi2, Num(10))
                  /\ c.at_bollinger_band = BandTouch(r.price, BandsOf(r), -1)
                  /\ c.extreme_roc = Lt(td.roc_percentile, Num(10))
            /\ Lt(Score(r), Num(0)) =>
                  /\ c.rsi2_oversold = Gt(td.rsi2, Num(90))
                  /\ c.at_bollinger_band = BandTouch(r.price, BandsOf(r), 1)
                  /\ c.extreme_roc = Gt(td.roc_percentile, Num(90))
                  /\ r.recommendation = "SHORT"
            /\ (Lt(Score(r), Num(0)) /\ BandTouch(r.price, BandsOf(r), -1))
                  => ~c.at_bollinger_band

\* C3 witness: a SHORT report whose price is at the lower band, with RSI(2)
\* above 90 counted and the band criterion not.
C3_Witness ==
    /\ Reported
    /\ Lt(Score(setup_report), Num(0))
    /\ setup_report.recommendation = "SHORT"
    /\ BandTouch(setup_report.price, BandsOf(setup_report), -1)
    /\ ~setup_report.checklist_items.at_bollinger_band

\* C4: some series in the pipeline's storage order, with some market
\* context, makes all 10 criteria true, and the report for it has
\* confirmed_count = 10 and ready_to_trade.
C4_FullyConfirmedReachable ==
    Reported =>
        \E df \in PipelineFrames, mc \in MarketConditions :
            LET r == generate_setup_report("SYM", df, mc)
            IN  r.confirmed_count = 10 /\ r.ready_to_trade

-----------------------------------------------------------------------------
(* Properties of analyze_futures_trade_setup (Spec)                        *)

IsErrorResult(r) ==
    /\ DOMAIN r = {"error", "symbol", "trade_signal", "recommendation"}
    /\ ~r.trade_signal
    /\ r.recommendation = "ERROR IN ANALYSIS"

TradeSetupKeys ==
    {"symbol", "timestamp", "price", "trade_signal", "recommendation", "technical_analysis",
     "institutional_analysis", "market_condition", "timing_analysis", "position_sizing"}

IsTradeSetup(r) == DOMAIN r = TradeSetupKeys

\* the requests of the evaluation so far that went to `to` and came to `outcome`
Outcomes(to, outcome) ==
    {i \in DOMAIN requests : requests[i].to = to /\ requests[i].outcome = outcome}

\* C5: in every result that is not the error result, trade_signal is
\* ready_to_trade AND institutional_activity_detected whatever the timing
\* says; the text is NO TRADE SETUP DETECTED exactly when trade_signal is
\* false, and otherwise ENTER ... NOW when the day and the intraday edge are
\* both favourable and SETUP VALID ... SUBOPTIMAL when they are not.
C5_TradeSignal ==
    (Done /\ IsTradeSetup(result)) =>
        LET ready     == result.technical_analysis.ready_to_trade
            detected  == result.institutional_analysis.institutional_activity_detected
            direction == result.technical_analysis.recommendation
            timing    == result.timing_analysis
            good      == timing.day_of_week.recommended_day
                         /\ timing.intraday_timing.entry_recommended
        IN  /\ result.trade_signal = (ready /\ detected)
            /\ ~result.trade_signal <=> result.recommendation = <<"NO TRADE SETUP DETECTED">>
            /\ result.trade_signal =>
                  result.recommendation =
                      IF good THEN <<"ENTER", direction, "POSITION NOW">>
                      ELSE <<"SETUP VALID FOR", direction, ", BUT TIMING IS SUBOPTIMAL">>

\* C5 witness: a trade setup returned on a recommended day inside the entry
\* window, with institutional activity detected and a checklist that is not
\* ready: trade_signal is false.
C5_Witness ==
    /\ Done
    /\ IsTradeSetup(result)
    /\ result.institutional_analysis.institutional_activity_detected
    /\ ~result.technical_analysis.ready_to_trade
    /\ result.timing_analysis.day_of_week.recommended_day
    /\ result.timing_analysis.intraday_timing.optimal_entry_time
    /\ ~result.trade_signal
    /\ result.recommendation = <<"NO TRADE SETUP DETECTED">>

\* C6: an evaluation that has ended has yielded a complete trade setup or
\* the error result, and when every request it made was answered with data
\* it has yielded the trade setup.
C6_CompleteOrError ==
    Done =>
        /\ IsTradeSetup(result) \/ IsErrorResult(result)
        /\ (\A i \in DOMAIN requests : requests[i].outcome = "data") => IsTradeSetup(result)

HardRequests == {"vix", "sp500", "sector", "overview", "asset", "options_flow", "options_skew"}

\* a request that made its fetch function raise: a failed hard request, or a
\* daily series answered without a time series
RaisedAt(i) ==
    /\ requests[i].to \in HardRequests
    /\ \/ requests[i].outcome = "failed"
       \/ requests[i].to \in {"vix", "sp500", "asset"} /\ requests[i].outcome = "no_data"

-----------------------------------------------------------------------------
(* Properties of calculate_position_size (SpecSizing)                      *)

\* the risk-implied contract count of a call, max_risk_amount / contract_risk
RiskImplied(a) ==
    Quot(Mul(Num(a.account_value), Div(a.risk_percent, 100)),
         Mul(Mul(Num(a.entry_price), Div(a.stop_loss_percent, 100)), Num(a.leverage)))

Floor(x) == x[1] \div x[2]

\* C8: for max_risk_amount > 0 and contract_risk > 0 the call returns a
\* sizing whose counts are floor(0.7 n) and floor(0.3 n), or (1, 0) when both
\* floors are 0, so that initial_contracts + secondary_contracts >= 1.
C8_SplitNeverEmpty ==
    (/\ Sized
     /\ call.account_value * call.risk_percent > 0
     /\ call.entry_price * call.stop_loss_percent * call.leverage > 0)
    => /\ result.raised = None
       /\ LET n  == RiskImplied(call)
              f7 == Floor(Mul(n, <<7, 10>>))
              f3 == Floor(Mul(n, <<3, 10>>))
              v  == result.value
          IN  /\ (f7 = 0 /\ f3 = 0) =>
                    (v.initial_contracts = 1 /\ v.secondary_contracts = 0)
              /\ f7 > 0 => (v.initial_contracts = f7 /\ v.secondary_contracts = f3)
              /\ v.initial_contracts + v.secondary_contracts >= 1

C9_Args ==
    [account_value |-> 10000, entry_price |-> 100, stop_loss_percent |-> 7,
     risk_percent |-> 3, leverage |-> 10]

\* C9: account_value 10000, entry_price 100, stop 7%, risk 3%, leverage 10
\* yield max_risk_amount 300, contract_risk 70, 2 + 1 = 3 contracts.
C9_Scenario ==
    (/\ Sized
     /\ \A k \in DOMAIN C9_Args : call[k] = C9_Args[k])
    => /\ result.raised = None
       /\ EqNum(result.value.max_risk_amount, Num(300))
       /\ EqNum(result.value.contract_risk, Num(70))
       /\ result.value.initial_contracts = 2
       /\ result.value.secondary_contracts = 1
       /\ result.value.total_contracts = 3

\* C10: sizing with a non-positive entry price, stop-loss percent or risk
\* percent, or with contract_risk = 0, fails with InvalidSizingInput.
C10_InvalidSizingInput ==
    (/\ Sized
     /\ \/ call.entry_price <= 0
        \/ call.stop_loss_percent <= 0
        \/ call.risk_percent <= 0
        \/ call.entry_price * call.stop_loss_percent * call.leverage = 0)
    => result.raised = "InvalidSizingInput"

\* C11: a sizing call with positive account value, entry price, stop,
\* risk and leverage returns stop and target prices on opposite sides of
\* the entry, stop_loss_price = entry (1 -/+ stop/100) and
\* target_price = entry (1 +/- 1.5 stop/100), with risk_reward_ratio 3/2.
C11_StopAndTargetSides ==
    (/\ Sized
     /\ call.account_value * call.risk_percent > 0
     /\ call.entry_price > 0 /\ call.stop_loss_percent > 0 /\ call.leverage > 0)
    => /\ result.raised = None
       /\ LET v     == result.value
              entry == Num(call.entry_price)
              down  == Mul(entry, <<100 - call.stop_loss_percent, 100>>)
              up    == Mul(entry, <<100 + call.stop_loss_percent, 100>>)
              far   == Mul(entry, <<200 + 3 * call.stop_loss_percent, 200>>)
              near  == Mul(entry, <<200 - 3 * call.stop_loss_percent, 200>>)
          IN  /\ \/ EqNum(v.stop_loss_price, down) /\ EqNum(v.target_price, far)
                 \/ EqNum(v.stop_loss_price, up) /\ EqNum(v.target_price, near)
              /\ EqNum(v.risk_reward_ratio, <<3, 2>>)

-----------------------------------------------------------------------------
(* Properties of analyze_institutional_activity (Spec)                     *)

\* analyze_institutional_activity has returned
Assessed == "institutional_analysis" \in DOMAIN locals

FlowFired(r) == DictGet(r.options_flow_analysis, "institutional_activity", FALSE)

BlockFired(r) == DictGet(r.block_trade_analysis, "block_trade_detected", FALSE)

SkewVote(r) ==
    IF DictGet(r.options_skew_analysis, "has_skew_data", FALSE)
    THEN DictGet(r.options_skew_analysis, "skew_direction", "neutral")
    ELSE "neutral"

SkewFired(r) == SkewVote(r) # "neutral"

\* C12: institutional_activity_detected is the OR of the three detectors
\* (options-flow anomaly, confirmed block trade, non-neutral skew), and so
\* it is true whenever confidence_score > 0.
C12_ActivityIsOrOfThree ==
    Assessed =>
        LET r == locals.institutional_analysis
        IN  /\ r.institutional_activity_detected
                 <=> (FlowFired(r) \/ BlockFired(r) \/ SkewFired(r))
            /\ Gt(r.confidence_score, Num(0)) => r.institutional_activity_detected

\* C13: confidence_score is (number of detectors that fired) / 3, one of
\* 0, 1/3, 2/3, 1, and so within [0, 1].
C13_ConfidenceIsFiredOverThree ==
    Assessed =>
        LET r == locals.institutional_analysis
            fired == {d \in {"flow", "block", "skew"} :
                         \/ d = "flow" /\ FlowFired(r)
                         \/ d = "block" /\ BlockFired(r)
                         \/ d = "skew" /\ SkewFired(r)}
        IN  /\ EqNum(r.confidence_score, <<Cardinality(fired), 3>>)
            /\ \E k \in 0..3 : EqNum(r.confidence_score, <<k, 3>>)
            /\ Ge(r.confidence_score, Num(0)) /\ Le(r.confidence_score, Num(1))

\* C13 witness: skew data that is neutral next to two detectors that fired
C13_Witness ==
    /\ Assessed
    /\ LET r == locals.institutional_analysis
       IN  /\ FlowFired(r) /\ BlockFired(r)
           /\ r.options_skew_analysis.has_skew_data
           /\ ~SkewFired(r)
           /\ EqNum(r.confidence_score, <<2, 3>>)

\* the vote of the options flow: one trigger alone
FlowVote(r) ==
    LET bullish == DictGet(r.options_flow_analysis, "bullish_signal", FALSE)
        bearish == DictGet(r.options_flow_analysis, "bearish_signal", FALSE)
    IN  IF bullish = bearish THEN "neutral" ELSE IF bullish THEN "bullish" ELSE "bearish"

\* C14: directional_bias is the flow vote (neutral when neither or both
\* triggers fired), replaced by the skew direction when the flow vote is
\* neutral and the skew is not, and by "mixed" when both are non-neutral and
\* disagree; it is one of bullish, bearish, neutral, mixed.
C14_DirectionalBias ==
    Assessed =>
        LET r    == locals.institutional_analysis
            flow == FlowVote(r)
            skew == SkewVote(r)
        IN  /\ r.directional_bias \in {"bullish", "bearish", "neutral", "mixed"}
            /\ (skew # "neutral" /\ flow = "neutral") => r.directional_bias = skew
            /\ (skew # "neutral" /\ flow # "neutral" /\ flow # skew)
                  => r.directional_bias = "mixed"
            /\ (skew = "neutral" \/ flow = skew) => r.directional_bias = flow

\* C14 witness: both flow triggers fired and the skew is neutral
C14_Witness ==
    /\ Assessed
    /\ LET r == locals.institutional_analysis
       IN  /\ DictGet(r.options_flow_analysis, "bullish_signal", FALSE)
           /\ DictGet(r.options_flow_analysis, "bearish_signal", FALSE)
           /\ SkewVote(r) = "neutral"
           /\ r.directional_bias = "neutral"

-----------------------------------------------------------------------------
(* Properties of process_options_flow (SpecFlow)                           *)

\* the aggregate volume of the contracts of one type in the chain given
TypeVolume(type) ==
    LET chain == call.options_data.data
    IN  SumOver([i \in DOMAIN chain |-> chain[i].volume],
                {i \in DOMAIN chain : chain[i].type = type})

\* C15: a chain with aggregate call volume 1000 and aggregate put volume
\* 100 gives call_put_ratio 10, bullish_signal true, bearish_signal false
\* and institutional_activity true, however the volume is distributed.
C15_RatioTenScenario ==
    (Flowed /\ TypeVolume("call") = 1000 /\ TypeVolume("put") = 100)
    => /\ EqNum(result.call_put_ratio, Num(10))
       /\ result.institutional_activity
       /\ "bullish_signal" \in DOMAIN result /\ result.bullish_signal
       /\ ~result.bearish_signal

-----------------------------------------------------------------------------
(* Properties of the indicator functions (SpecIndicators)                  *)

\* C16: on a series with fewer than window bars the moving average, the
\* Bollinger bands, the ATR and the RSI are NaN at every position, never a
\* number made from padded or zero-filled history.
C16_ShortSeriesNotAvailable ==
    (Calculated /\ NRows(asset_df) < call.window)
    => \A p \in 1..NRows(asset_df) :
          /\ IsNaN(result.moving_average[p])
          /\ IsNaN(result.bollinger_bands[p].middle)
          /\ IsNaN(result.bollinger_bands[p].width_sq)
          /\ IsNaN(result.atr[p])
          /\ IsNaN(result.rsi[p])

\* C16 witness: a series one bar short of the window
C16_Witness ==
    /\ Calculated
    /\ NRows(asset_df) = 2
    /\ call.window = 3
    /\ IsNaN(result.moving_average[2])
    /\ IsNaN(result.rsi[2])


\* the sum of the losses (falls of the column from one bar to the next)
\* over the window that ends at position p
WindowLoss(df, window, column, p) ==
    LET x == Column(df, column)
    IN  RangeSum([i \in 1..NRows(df) |-> IF i > 1 /\ x[i] < x[i - 1] THEN x[i - 1] - x[i] ELSE 0],
                 p - window + 1, p)

\* C17: every RSI value of a full window lies within [0, 100], and it is
\* exactly 100 whenever the average loss of the window is 0.
C17_RsiRange ==
    Calculated =>
        \A p \in call.window..NRows(asset_df) :
            /\ Ge(result.rsi[p], Num(0)) /\ Le(result.rsi[p], Num(100))
            /\ WindowLoss(asset_df, call.window, call.column, p) = 0
                  => EqNum(result.rsi[p], Num(100))

-----------------------------------------------------------------------------
(* generate_setup_report on little history (SpecReport)                    *)

\* the checklist criteria that read the indicator value x
DependentCriteria(x) ==
    {k \in ChecklistKeys :
       \/ x = "mean_reversion_score" /\ k = "mean_reversion_opportunity"
       \/ x = "rsi2" /\ k = "rsi2_oversold"
       \/ x = "middle_band" /\ k = "at_bollinger_band"
       \/ x = "band_width_sq" /\ k = "at_bollinger_band"
       \/ x = "roc_percentile" /\ k = "extreme_roc"
       \/ x = "price_vs_vwap" /\ k = "price_near_vwap"
       \/ x = "atr_ratio" /\ k = "high_atr"}

\* C18: generate_setup_report returns a report for every series, the
\* shortest included, and in it every criterion whose indicator has too
\* little history (is NaN at the bar reported; for volume_climax, fewer
\* than 10 bars up to the bar reported) is false.
C18_ShortHistoryCountsFalse ==
    (pc \in {"reported", "report_raised"})
    => /\ Reported
       /\ \A x \in DOMAIN setup_report.technical_data :
             IsNaN(setup_report.technical_data[x])
                => \A k \in DependentCriteria(x) :
                      ~setup_report.checklist_items[k]
       /\ asset_df.label0 < 10 => ~setup_report.checklist_items.volume_climax

-----------------------------------------------------------------------------
(* Replay of an evaluation on frozen data (SpecReplay)                     *)

\* C19: two runs on the same frozen data give the same checklist result
\* and the same institutional assessment, whatever the clock at each run.
C19_ReplayIdentical ==
    Replayed =>
        /\ result[1].checklist = result[2].checklist
        /\ result[1].institutional = result[2].institutional

-----------------------------------------------------------------------------
(* Properties of handle_call_tool (SpecServer)                             *)

\* the fragments of every text content of a returned list
FragmentsOf(contents) == UNION {{contents[i].text[j] : j \in DOMAIN contents[i].text} :
                                  i \in DOMAIN contents}

\* C20: called with "get-top-gainers-losers" and no arguments,
\* handle_call_tool makes a request to the data source and returns a list
\* of contents whose text holds "Top Gainers and Losers"; it does not
\* answer "Unknown tool".
C20_TopGainersLosersDispatched ==
    (Handled /\ call.module = "server" /\ call.name = "get-top-gainers-losers"
     /\ call.arguments = <<>>)
    => /\ result.raised = None
       /\ Len(requests) >= 1
       /\ "Top Gainers and Losers" \in FragmentsOf(result.value)
       /\ "Unknown tool: " \notin FragmentsOf(result.value)

-----------------------------------------------------------------------------
(* Failed fetches (SpecServer)                                             *)

\* the call made at least one request and the request function answered one
\* of them with an error text
FetchFailed == \E i \in 1..Len(requests) : requests[i].outcome = "failed"

\* the texts the request function gives for a response that is not data
ErrorTexts ==
    {"Request timed out after 30 seconds.", "Failed to connect to Alpha Vantage API.",
     "Rate limit exceeded.", "API key invalid or expired.", "HTTP error occurred",
     "Unexpected error occurred", "Alpha Vantage API error", "Rate limit warning"}

\* C21: for every tool of handle_call_tool, when the data source answers a
\* request with a rate limit, an invalid key, an API error, a timeout or a
\* response that is not JSON, the request function returns an error value
\* and the handler returns a text result; no handler raises on a failed
\* fetch, get-vix-trend and analyze-mean-reversion included.
C21_FailedFetchNeverRaises ==
    (Handled /\ FetchFailed)
    => /\ \A i \in 1..Len(requests) :
             requests[i].outcome = "failed" => requests[i].error \in ErrorTexts
       /\ result.raised = None
       /\ Len(result.value) >= 1
       /\ \A i \in 1..Len(result.value) : result.value[i].type = "text"

-----------------------------------------------------------------------------
(* The moving average at the latest bar (SpecReport)                       *)

\* the frame is stored most recent first and [0] is its first row, the
\* latest bar, as in the frames get_price_data returns
MostRecentFirst(df) == df.label0 = 1 /\ NRows(df) >= 2

\* C22: for a price series stored most recent first with at least `window`
\* bars, the moving average read for the latest bar (position 0; here the
\* middle Bollinger band of generate_setup_report, window 20) is defined and
\* equals the arithmetic mean of the 20 most recent closes.
C22_LatestMovingAverage ==
    (Reported /\ MostRecentFirst(asset_df) /\ NRows(asset_df) >= 20)
    => LET latest == setup_report.technical_data.middle_band
       IN  /\ ~IsNaN(latest)
           /\ EqNum(latest, <<RangeSum(Column(asset_df, "close"), 1, 20), 20>>)

-----------------------------------------------------------------------------
(* institutional_activity of process_options_flow (SpecFlow)               *)

\* the chain given to process_options_flow
FlowInput == call.options_data.data

\* the contracts whose volume is in the top 5% of the chain: at or above
\* the 0.95 quantile of the volumes
VolumeOutliers ==
    LET vnum == [i \in DOMAIN FlowInput |-> Num(FlowInput[i].volume)]
    IN  {i \in DOMAIN FlowInput : Ge(vnum[i], Quantile95(vnum, DOMAIN FlowInput))}

\* the contracts whose volume/open-interest ratio is in the top 5% of the
\* ratios that are defined: at or above their 0.95 quantile
RatioOutliers ==
    LET rated == {i \in DOMAIN FlowInput : FlowInput[i].open_interest # 0}
        ratio == [i \in rated |-> Div(FlowInput[i].volume, FlowInput[i].open_interest)]
    IN  {i \in rated : Ge(ratio[i], Quantile95(ratio, rated))}

\* C23: on a chain with calls and puts, institutional_activity is true
\* exactly when the aggregate call/put volume ratio is > 2 or < 0.5, or some
\* one contract is an outlier both in volume and in volume/open interest; a
\* contract that is an outlier in one measure only does not flag it.
C23_InstitutionalActivityRule ==
    (Flowed /\ TypeVolume("call") > 0 /\ TypeVolume("put") > 0)
    => LET ratio == Div(TypeVolume("call"), TypeVolume("put"))
       IN  result.institutional_activity
           <=> \/ Gt(ratio, Num(2))
               \/ Lt(ratio, <<1, 2>>)
               \/ VolumeOutliers \cap RatioOutliers # {}

-----------------------------------------------------------------------------
(* Properties of detect_block_trades (SpecBlocks)                          *)

\* the times of the bars of the trailing window: those not more than days
\* before the latest bar
WindowTimes == {t \in DOMAIN call.series : t >= MaxTicks - call.days}

\* the bar at time t is confirmed: its volume is at least 5 times the mean
\* volume of the window, it has a predecessor in the window, and its close
\* differs from the predecessor's by more than 0.2%
Confirmed(t) ==
    LET volumes == [u \in WindowTimes |-> call.series[u].volume]
        mean    == Div(SumOver(volumes, WindowTimes), Cardinality(WindowTimes))
        older   == {u \in WindowTimes : u < t}
        prev    == CHOOSE u \in older : \A w \in older : w <= u
        change  == call.series[t].close - call.series[prev].close
    IN  /\ Ge(Num(call.series[t].volume), Mul(Num(5), mean))
        /\ older # {}
        /\ 1000 * AbsInt(change) > 2 * call.series[prev].close

\* C24: detect_block_trades confirms exactly the bars of the window whose
\* volume is >= 5 times the window's mean volume and whose close moved by
\* more than 0.2% against the bar before; the oldest bar is never
\* confirmed; recent_block_trades is the number of confirmed bars and
\* block_trade_detected is true exactly when that number is >= 1.
C24_BlockTradeRule ==
    BlocksDetected
    => LET confirmed == {t \in WindowTimes : Confirmed(t)}
       IN  /\ "recent_block_trades" \in DOMAIN result
           /\ result.recent_block_trades = Cardinality(confirmed)
           /\ result.block_trade_detected <=> Cardinality(confirmed) >= 1

-----------------------------------------------------------------------------
(* Properties of analyze_option_skew (SpecSkew)                            *)

\* the expirations of the chain that are at least 7 days out
ValidExpirations == {e \in Expirations : call.put_ivs[e] # 0 /\ e - call.today >= 7}

\* the direction of a put IV against the call IV of 20
DirectionOf(put_iv) ==
    IF 10 * put_iv > 11 * 20 THEN "bearish"
    ELSE IF 10 * put_iv < 9 * 20 THEN "bullish"
    ELSE "neutral"

\* C25: analyze_option_skew takes the nearest expiration at least 7 days
\* out and calls the ratio of mean OTM-put IV to mean OTM-call IV bearish
\* above 1.10, bullish below 0.90 and neutral otherwise; with no expiration
\* at least 7 days out it returns the neutral default.
C25_SkewOfNearestValidExpiration ==
    SkewAnalyzed
    => IF ValidExpirations = {}
       THEN /\ ~result.has_skew_data
            /\ result.skew_direction = "neutral"
            /\ "error" \notin DOMAIN result
       ELSE LET nearest == CHOOSE e \in ValidExpirations : \A f \in ValidExpirations : e <= f
            IN  /\ result.has_skew_data
                /\ result.days_to_expiry = nearest - call.today
                /\ EqNum(result.skew_ratio, <<call.put_ivs[nearest], 20>>)
                /\ result.skew_direction = DirectionOf(call.put_ivs[nearest])

\* C25 witness: the chain has expirations, the nearest of them bearish and
\* 6 days out, and none at least 7 days out
C25_Witness ==
    /\ SkewAnalyzed
    /\ call.today = 34
    /\ call.put_ivs[40] = 30
    /\ ValidExpirations = {}
    /\ result = SkewDefault

-----------------------------------------------------------------------------
(* The volume_climax criterion (SpecReport)                                *)

\* C26: on a series stored most recent first, volume_climax for the latest
\* bar is true exactly when the latest volume exceeds 1.5 times the average
\* volume of the 10 bars that precede it in time, the latest bar excluded.
C26_VolumeClimaxOfLatestBar ==
    (Reported /\ MostRecentFirst(asset_df) /\ NRows(asset_df) >= 11)
    => LET volume   == Column(asset_df, "volume")
           trailing == <<RangeSum(volume, 2, 11), 10>>
       IN  setup_report.checklist_items.volume_climax
           <=> Gt(Num(volume[1]), Mul(trailing, <<3, 2>>))

-----------------------------------------------------------------------------
(* The VWAP of the latest bar (SpecReport)                                 *)

\* (high + low + close) * volume of row i; a third of it is typical price
\* times volume
TypicalVolume3(df, i) == (df.rows[i].high + df.rows[i].low + df.rows[i].close) * df.rows[i].volume

\* C27: on a series stored most recent first, the VWAP used for the latest
\* bar in generate_setup_report is the aggregate over the whole series, the
\* sum of typical_price * volume over the sum of the volumes, not the
\* typical price of the latest bar alone.
C27_VwapOverFullSeries ==
    (Reported /\ MostRecentFirst(asset_df))
    => LET n   == NRows(asset_df)
           tpv == [i \in 1..n |-> TypicalVolume3(asset_df, i)]
       IN  EqNum(setup_report.technical_data.vwap,
                 Div(RangeSum(tpv, 1, n), 3 * RangeSum(Column(asset_df, "volume"), 1, n)))

-----------------------------------------------------------------------------
(* Properties of get_day_of_week_edge (SpecCalendar)                       *)

\* C28: on every day of the week, Monday through Sunday, get_day_of_week_edge
\* returns a result whose recommended_day is true exactly on Tuesday and
\* Wednesday; it does not fail on any day.
C28_RecommendedOnTuesdayWednesday ==
    DayEdgeGiven
    => /\ result.raised = None
       /\ result.value.recommended_day <=> call.clock.day % 7 \in {1, 2}

-----------------------------------------------------------------------------
(* Properties of check_mean_reversion_setup (SpecServer)                   *)

\* the analyze-mean-reversion tool returned the analysis of
\* check_mean_reversion_setup
Analyzed ==
    /\ Handled
    /\ call.name = "analyze-mean-reversion"
    /\ result.raised = None
    /\ result.value[1].values # <<>>

\* the RSI request failed or its body had no RSI table
RsiUnavailable ==
    \E i \in 1..Len(requests) :
        /\ requests[i].function = "RSI"
        /\ requests[i].outcome = "failed" \/ result.value[1].values.rsi = -1

-----------------------------------------------------------------------------
(* Advertised tools are dispatched (SpecServer)                            *)

\* the names the module of the call advertises
AdvertisedBy(module) ==
    IF module = "server" THEN AdvertisedTools ELSE mean_reversion_server_handle_list_tools

\* C30: in each server module, every tool name that handle_list_tools
\* advertises is dispatched by that module's handle_call_tool to a handler:
\* a call of an advertised tool with valid arguments is never answered
\* "Unknown tool" or "Tool not implemented in mean reversion extension".
C30_AdvertisedToolsDispatched ==
    (/\ Handled
     /\ call.name \in AdvertisedBy(call.module)
     /\ call.arguments \in {[symbol |-> "aapl"], [crypto_symbol |-> "btc"]}
     /\ result.raised = None)
    => /\ "Unknown tool: " \notin FragmentsOf(result.value)
       /\ "Tool not implemented in mean reversion extension: " \notin FragmentsOf(result.value)

=============================================================================
